---- MODULE Spec2Model ----
(***************************************************************************)
(* A model of the reactive core of super-tiny-signal: cells (Signal),      *)
(* derived cells (Computed), effects and the scheduler, as implemented in  *)
(* src/core/signal.ts, src/core/computed.ts and src/core/effect.ts.        *)
(*                                                                         *)
(* The program is single threaded.  Every action below is one synchronous  *)
(* call made by the embedding program (a write, a read, effect(), a        *)
(* dispose, entering or leaving a batch body, a call of flushEffects) or   *)
(* the execution of one microtask.  The synchronous work of a call is      *)
(* computed by recursive operators that thread a record of the whole       *)
(* runtime state, mirroring the call structure of the source.              *)
(***************************************************************************)
EXTENDS Integers, Sequences, FiniteSets, TLC

(***************************************************************************)
(* Bounds of the model.                                                    *)
(***************************************************************************)
MaxVal == 1          \* cells are written with the values 0..MaxVal
MaxMicro == 1        \* microtasks queued at one time
MaxFuel == 12        \* marker invocations followed within one call

(***************************************************************************)
(* Program constants.                                                      *)
(***************************************************************************)
MAX_FLUSH_ITERATIONS == 100

(***************************************************************************)
(* Values.  Numbers are integers; NaN is a distinguished value on which    *)
(* arithmetic is absorbing; NoVal stands for "nothing observed".           *)
(***************************************************************************)
NaN == -1
NoVal == -2
Undefined == -3

Add(x, y) == IF x = NaN \/ y = NaN \/ x = Undefined \/ y = Undefined
             THEN NaN ELSE x + y

Truthy(x) == x # 0 /\ x # NaN /\ x # Undefined

\* Object.is on the modelled values: NaN is equal to itself.
ObjectIs(x, y) == x = y

\* The === operator on the modelled values: NaN differs from itself.
StrictEquals(x, y) == x = y /\ x # NaN

defaultEquals(x, y) == ObjectIs(x, y)

(***************************************************************************)
(* The objects of a program: two cells, three computeds with their dirty   *)
(* markers, two effects.                                                   *)
(***************************************************************************)
Cells == {"a", "b"}
Computeds == {"k1", "k2", "k3"}
Signals == Cells \cup Computeds
Effects == {"e1", "e2"}
Markers == {"m1", "m2", "m3"}
Nodes == Effects \cup Markers
Tomb == "tomb"

\* Scope handles (DOM nodes: n2 is a child of n1) and the disposers a
\* program registers for them.
Handles == {"n1", "n2"}
Disposers == {"d1", "d2", "d3"}
childNodes(n) == IF n = "n1" THEN <<"n2">> ELSE <<>>

MarkerOf(k) == CASE k = "k1" -> "m1" [] k = "k2" -> "m2" [] k = "k3" -> "m3"
CompOf(m) == CASE m = "m1" -> "k1" [] m = "m2" -> "k2" [] m = "m3" -> "k3"

\* The sync tag set on a computed's marker and on nothing else.
IsSync(n) == n \in Markers


(***************************************************************************)
(* Programs.  A compute function is one of a few shapes over the signals   *)
(* it reads; an effect body is a straight-line script with one local,      *)
(* acc.  A scenario is a program: its computeds and effects, the cells     *)
(* and values the embedding program writes, and the calls it makes besides *)
(* effect() and writes through the property setter ("call": it also        *)
(* writes through the callable accessor).                                  *)
(***************************************************************************)
Fn(op, x, y) == [op |-> op, x |-> x, y |-> y]
Unused == Fn("unused", "-", "-")

\* i: the instruction, s: the signal or effect it names, v: a literal,
\* f: the form of a write ("setter": s.value = v, "call": s(v),
\* "updater": s(prev => v)).
Ins(i, s, v, f) == [i |-> i, s |-> s, v |-> v, f |-> f]
Read(s) == Ins("read", s, 0, "-")
IfZero == Ins("ifz", "-", 0, "-")               \* skip the next instruction when acc is falsy
WriteAcc(s) == Ins("writeacc", s, 0, "setter")  \* s.value = acc
Write(s, v, f) == Ins("write", s, v, f)
Toggle(s) == Ins("toggle", s, 0, "setter")      \* s.value = 1 - s.value
IncBelow(s, lim) == Ins("incbelow", s, lim, "setter") \* if (s.value < lim) s.value = s.value + 1
DisposeOf(e) == Ins("dispose", e, 0, "-")
Throw == Ins("throw", "-", 0, "-")              \* throw new Error(...)
PeekAt(s) == Ins("peek", s, 0, "-")             \* s.peek()

NoFns == [k \in Computeds |-> Unused]
NoEager == [k \in Computeds |-> FALSE]

Chain ==
  [name |-> "chain",
   fn |-> [NoFns EXCEPT !["k1"] = Fn("add1", "a", "-"),
                        !["k2"] = Fn("add1", "k1", "-"),
                        !["k3"] = Fn("sum", "k1", "k2")],
   eager |-> NoEager,
   body |-> [e1 |-> <<Read("k3")>>, e2 |-> <<>>],
   cells |-> {"a"}, vals |-> 0..MaxVal, calls |-> {"read", "call"}]

EagerChain ==
  [name |-> "eager",
   fn |-> [NoFns EXCEPT !["k1"] = Fn("add1", "a", "-"),
                        !["k2"] = Fn("add1", "k1", "-")],
   eager |-> [NoEager EXCEPT !["k1"] = TRUE],
   body |-> [e1 |-> <<Read("k2")>>, e2 |-> <<Read("k1")>>],
   cells |-> {"a"}, vals |-> 0..MaxVal, calls |-> {"read"}]

Branch ==
  [name |-> "branch",
   fn |-> NoFns,
   eager |-> NoEager,
   body |-> [e1 |-> <<Read("a"), IfZero, Read("b")>>, e2 |-> <<Read("b")>>],
   cells |-> {"a", "b"}, vals |-> 0..MaxVal, calls |-> {"batch"}]

Cascade ==
  [name |-> "cascade",
   fn |-> NoFns,
   eager |-> NoEager,
   body |-> [e1 |-> <<Read("a"), WriteAcc("b")>>, e2 |-> <<Read("b")>>],
   cells |-> {"a"}, vals |-> (0..MaxVal) \cup {NaN}, calls |-> {"flush"}]

Loop ==
  [name |-> "loop",
   fn |-> NoFns,
   eager |-> NoEager,
   body |-> [e1 |-> <<Toggle("a")>>,
             e2 |-> <<IncBelow("b", MAX_FLUSH_ITERATIONS)>>],
   cells |-> {"b"}, vals |-> 0..MaxVal, calls |-> {"flush"}]

Disposer ==
  [name |-> "disposer",
   fn |-> NoFns,
   eager |-> NoEager,
   body |-> [e1 |-> <<Read("a"), IfZero, DisposeOf("e1"), Read("b")>>,
             e2 |-> <<Read("a"), IfZero, DisposeOf("e1")>>],
   cells |-> {"a"}, vals |-> 0..MaxVal, calls |-> {"dispose"}]

Writer ==
  [name |-> "writer",
   fn |-> NoFns,
   eager |-> NoEager,
   body |-> [e1 |-> <<Read("a"), Write("b", 1, "call")>>,
             e2 |-> <<Read("a"), Write("b", 1, "updater")>>],
   cells |-> {"a", "b"}, vals |-> 0..MaxVal, calls |-> {"call"}]

Batched ==
  [name |-> "batched",
   fn |-> [NoFns EXCEPT !["k1"] = Fn("add1", "a", "-"),
                        !["k2"] = Fn("add1", "k1", "-")],
   eager |-> NoEager,
   body |-> [e1 |-> <<Read("k2")>>, e2 |-> <<>>],
   cells |-> {"a"}, vals |-> 0..MaxVal, calls |-> {"read", "batch", "assign"}]

Switch ==
  [name |-> "switch",
   fn |-> [NoFns EXCEPT !["k1"] = Fn("cond", "a", "b")],
   eager |-> NoEager,
   body |-> [e1 |-> <<Read("k1")>>, e2 |-> <<>>],
   cells |-> {"a", "b"}, vals |-> 0..MaxVal, calls |-> {"read"}]

Thrower ==
  [name |-> "thrower",
   fn |-> NoFns,
   eager |-> NoEager,
   body |-> [e1 |-> <<Read("a"), IfZero, Throw, Read("b")>>,
             e2 |-> <<Read("a")>>],
   cells |-> {"a"}, vals |-> 0..MaxVal, calls |-> {"flush"}]

\* k1 = computed(() => { if (a.value) throw new Error(...); return b.value + 1 })
Faulty ==
  [name |-> "faulty",
   fn |-> [NoFns EXCEPT !["k1"] = Fn("guard", "a", "b"),
                        !["k2"] = Fn("add1", "k1", "-")],
   eager |-> NoEager,
   body |-> [e1 |-> <<>>, e2 |-> <<>>],
   cells |-> {"a", "b"}, vals |-> 0..MaxVal, calls |-> {"read", "assign"}]

\* b = signal(0, { equals: erroringEquals }), read by k1 = b + 1 and by e1.
Picky ==
  [name |-> "picky",
   fn |-> [NoFns EXCEPT !["k1"] = Fn("add1", "b", "-")],
   eager |-> NoEager,
   body |-> [e1 |-> <<Read("b")>>, e2 |-> <<>>],
   cells |-> {"b"}, vals |-> 0..MaxVal,
   calls |-> {"read", "call", "erroringEquals"}]

\* doubled = computed(() => count.value + 1), read by two effects.
Shared ==
  [name |-> "shared",
   fn |-> [NoFns EXCEPT !["k1"] = Fn("add1", "a", "-")],
   eager |-> NoEager,
   body |-> [e1 |-> <<Read("k1")>>, e2 |-> <<Read("k1")>>],
   cells |-> {"a"}, vals |-> 0..MaxVal, calls |-> {"flush"}]

\* comp = computed(() => obj.value + 1, { equals: coarseEquals }), read by
\* two effects.
Coarse ==
  [name |-> "coarse",
   fn |-> [NoFns EXCEPT !["k1"] = Fn("add1", "a", "-")],
   eager |-> NoEager,
   body |-> [e1 |-> <<Read("k1")>>, e2 |-> <<Read("k1")>>],
   cells |-> {"a"}, vals |-> 0..MaxVal, calls |-> {"read", "coarseEquals"}]

\* k1 = computed(() => a.value + 1); e1 peeks b and reads k1, e2 peeks k1.
Peeker ==
  [name |-> "peeker",
   fn |-> [NoFns EXCEPT !["k1"] = Fn("add1", "a", "-")],
   eager |-> NoEager,
   body |-> [e1 |-> <<PeekAt("b"), Read("k1")>>, e2 |-> <<PeekAt("k1")>>],
   cells |-> {"a", "b"}, vals |-> 0..MaxVal, calls |-> {"read", "peek"}]

\* A program of the DOM helpers: it registers disposers for scope handles
\* and removes handles from the document.
Registry ==
  [name |-> "registry",
   fn |-> NoFns,
   eager |-> NoEager,
   body |-> [e1 |-> <<>>, e2 |-> <<>>],
   cells |-> {}, vals |-> {}, calls |-> {"registerNodeCleanup"}]

\* k1 = computed(() => { if (a.value) { b.value; throw new Error() }
\* return 0 }).
Trapped ==
  [name |-> "trapped",
   fn |-> [NoFns EXCEPT !["k1"] = Fn("trap", "a", "b")],
   eager |-> NoEager,
   body |-> [e1 |-> <<>>, e2 |-> <<>>],
   cells |-> {"a", "b"}, vals |-> 0..MaxVal, calls |-> {"read"}]

\* k1 = computed(() => { if (a.value) throw new Error(); return b.value + 1 },
\* { eager: true }), k2 = computed(() => a.value + 1), effect(() => a.value).
EagerFaulty ==
  [name |-> "eagerfaulty",
   fn |-> [NoFns EXCEPT !["k1"] = Fn("guard", "a", "b"),
                        !["k2"] = Fn("add1", "a", "-")],
   eager |-> [NoEager EXCEPT !["k1"] = TRUE],
   body |-> [e1 |-> <<Read("a")>>, e2 |-> <<>>],
   cells |-> {"a"}, vals |-> 0..MaxVal, calls |-> {"read"}]

\* createStore(persist((set, get) => ({ count: 0, ...methods }), options)).
Persisted ==
  [name |-> "persisted",
   fn |-> NoFns,
   eager |-> NoEager,
   body |-> [e1 |-> <<>>, e2 |-> <<>>],
   cells |-> {}, vals |-> {}, calls |-> {"persist"}]

\* A computed whose function reads the computed itself.
SelfRead ==
  [name |-> "selfread",
   fn |-> [NoFns EXCEPT !["k1"] = Fn("selfadd", "a", "-")],
   eager |-> NoEager,
   body |-> [e1 |-> <<Read("k1")>>, e2 |-> <<>>],
   cells |-> {"a"}, vals |-> 0..MaxVal, calls |-> {"read"}]

\* An eager computed over a lazy computed.
EagerOverLazy ==
  [name |-> "eageroverlazy",
   fn |-> [NoFns EXCEPT !["k1"] = Fn("add1", "a", "-"),
                        !["k2"] = Fn("add1", "k1", "-")],
   eager |-> [NoEager EXCEPT !["k2"] = TRUE],
   body |-> [e1 |-> <<Read("k2")>>, e2 |-> <<>>],
   cells |-> {"a"}, vals |-> 0..MaxVal, calls |-> {"read"}]

\* An effect that reads a computed whose function throws while a is truthy.
FaultyReader ==
  [name |-> "faultyreader",
   fn |-> [NoFns EXCEPT !["k1"] = Fn("guard", "a", "b")],
   eager |-> NoEager,
   body |-> [e1 |-> <<Read("k1")>>, e2 |-> <<>>],
   cells |-> {"a"}, vals |-> 0..MaxVal, calls |-> {}]

Scenarios ==
  <<Chain, EagerChain, Branch, Cascade, Loop, Disposer, Writer, Batched, Switch,
    Thrower, Faulty, Picky, Shared, Coarse, Peeker, Registry, Persisted,
    Trapped, EagerFaulty, SelfRead, EagerOverLazy, FaultyReader>>

VARIABLES
  scn,             \* the program that runs: one of Scenarios
  value,           \* Signal._value of every cell and computed
  effects,         \* Signal._effects: the dependents of every cell and computed
  dependencies,    \* runner.dependencies / markDirtyEffect.dependencies
  sources,         \* Computed.sources
  dirty,           \* Computed.dirty
  disposed,        \* runner.disposed
  isComputing,     \* Computed.isComputing
  activeEffects,   \* the active-node stack
  status,          \* per effect: "none" (effect() not called), "live", "failed"
  pendingEffects,  \* the scheduler's pending set, in insertion order
  isFlushing,      \* the scheduler's flushing flag
  batchDepth,      \* the scheduler's batch depth
  microtasks,      \* the microtask queue: callbacks not yet run
  seen,            \* what each effect's body read in its last run
  tracked,         \* per node: the signals whose getter the last run of the
                   \* effect, or the last computation of the computed, called
  everTracked,     \* per node: the signals whose getter any of them called
  threw,           \* per effect: its last run ended with an exception
  lastRead,        \* the computed read last, if no cell has changed since
  isHydrated,      \* persist: the stored state was loaded, or found missing
  pendingUpdates,  \* persist: the updates queued until then
  storeCount,      \* the state of the persisted store: its field count
  applied,         \* the queued updates the store's set has applied, by
                   \* their position in the queue, in the order applied
  saved,           \* the state last handed to storage.setItem
  setCalls,        \* the calls of the wrapped set made so far
  cleanupByNode,   \* scopeCleanup: the disposers registered per scope handle
  throwsOn,        \* per disposer: calling it throws
  called,          \* per disposer: the number of times it was called
  owed,            \* per effect: reruns since a batched write made one due
  hung,            \* a call that never returned
  last             \* what the last call did and returned

vars == <<scn, value, effects, dependencies, sources, dirty, disposed, status,
          isComputing, activeEffects,
          pendingEffects, isFlushing, batchDepth, microtasks, seen, tracked,
          everTracked, threw, lastRead, owed, hung, last,
          isHydrated, pendingUpdates, storeCount, applied, saved, setCalls,
          cleanupByNode, throwsOn, called>>

Prog == scn


(***************************************************************************)
(* JavaScript Sets.  A Set keeps its entries in insertion order; delete    *)
(* empties an entry in place and add appends, so an iteration in progress  *)
(* visits an entry that is deleted and added again a second time.  The     *)
(* emptied entries are dropped when the call that made them has returned   *)
(* (Compact), when no iteration is in progress.                            *)
(***************************************************************************)
SetHas(set, n) == \E i \in 1..Len(set) : set[i] = n
SetAdd(set, n) == IF SetHas(set, n) THEN set ELSE Append(set, n)
SetDelete(set, n) == [i \in 1..Len(set) |-> IF set[i] = n THEN Tomb ELSE set[i]]
ArrayFrom(set) == SelectSeq(set, LAMBDA n : n # Tomb)
Members(set) == {set[i] : i \in 1..Len(set)} \ {Tomb}

(***************************************************************************)
(* The runtime state threaded through one synchronous call: the program's  *)
(* state, plus ret and err (the value a call returns or the exception it   *)
(* throws) and what the call did (runs, order, computes, errors logged).   *)
(***************************************************************************)
NoRuns == [e \in Effects |-> 0]
NotKilled == [e \in Effects |-> NoVal]
NoComputes == [k \in Computeds |-> 0]
NothingSeen == [s \in Signals |-> NoVal]

State ==
  [value |-> value, effects |-> effects, dependencies |-> dependencies,
   sources |-> sources, dirty |-> dirty, disposed |-> disposed,
   status |-> status, pendingEffects |-> pendingEffects,
   isFlushing |-> isFlushing, batchDepth |-> batchDepth,
   microtasks |-> microtasks, seen |-> seen, tracked |-> tracked,
   everTracked |-> everTracked, threw |-> threw, owed |-> owed,
   isComputing |-> isComputing,
   activeEffects |-> activeEffects,
   ret |-> NoVal, err |-> "none", message |-> <<>>,
   runs |-> NoRuns, order |-> <<>>, computes |-> NoComputes, logged |-> 0,
   iterations |-> 0, skipped |-> 0,
   inWrite |-> 0, syncRerun |-> FALSE, zombieRun |-> FALSE,
   noopChanged |-> FALSE, equalChanged |-> FALSE, passes |-> <<>>,
   killedAt |-> NotKilled,
   inFn |-> [k \in Computeds |-> FALSE],
   reentered |-> FALSE, refused |-> FALSE, unbalanced |-> FALSE,
   fuel |-> MaxFuel]

Top(st) == st.activeEffects[Len(st.activeEffects)]
Push(st, n) == [st EXCEPT !.activeEffects = Append(@, n)]
Pop(st) == [st EXCEPT !.activeEffects = SubSeq(@, 1, Len(@) - 1)]
Ok(st) == st.err = "none"

\* The end of a run or recomputation begun in state st: unbalanced records a
\* stack that is not what it was when the run began.
Ended(st, t) ==
  [t EXCEPT !.unbalanced = @ \/ t.activeEffects # st.activeEffects]
\* A catch block that logs: console.error and carry on.  A call that does
\* not terminate is not an exception and is not caught.
CatchAndLog(st) ==
  IF st.err \in {"none", "hang"} THEN st
  ELSE [st EXCEPT !.err = "none", !.logged = @ + 1]

addEffect(st, s, n) ==
  [st EXCEPT !.effects[s] = SetAdd(@, n), !.dependencies[n] = @ \cup {s}]

removeEffect(st, s, n) ==
  [st EXCEPT !.effects[s] = SetDelete(@, n), !.dependencies[n] = @ \ {s}]

\* for (const dep of from) dep.removeEffect(n)
RemoveFromAll(st, n, from) ==
  [st EXCEPT !.effects = [s \in Signals |->
                            IF s \in from THEN SetDelete(@[s], n) ELSE @[s]],
             !.dependencies[n] = @ \ from]

\* scheduleEffect with an array for the pending set: a node scheduled twice
\* is pending twice.
scheduleEffectNoDedup(st, n) ==
  IF st.disposed[n] THEN st
  ELSE LET s1 == [st EXCEPT !.pendingEffects = Append(@, n)]
       IN IF s1.batchDepth = 0 /\ ~s1.isFlushing
          THEN [s1 EXCEPT !.isFlushing = TRUE,
                          !.microtasks = Append(@, "callFlush")]
          ELSE s1

\* scheduleEffect that takes the flushing flag for "nothing more to do".
scheduleEffectOnlyWhenIdle(st, n) ==
  IF st.disposed[n] \/ st.isFlushing THEN st
  ELSE LET s1 == [st EXCEPT !.pendingEffects = SetAdd(@, n)]
       IN IF s1.batchDepth = 0
          THEN [s1 EXCEPT !.isFlushing = TRUE,
                          !.microtasks = Append(@, "callFlush")]
          ELSE s1

scheduleEffect(st, n) ==
  IF st.disposed[n] THEN st
  ELSE LET s1 == [st EXCEPT !.pendingEffects = SetAdd(@, n)]
       IN IF s1.batchDepth = 0 /\ ~s1.isFlushing
          THEN [s1 EXCEPT !.isFlushing = TRUE,
                          !.microtasks = Append(@, "callFlush")]
          ELSE s1

\* The equality function of signal s: defaultEquals unless the program
\* gives one.
\* A custom equality function that looks at a part of the value only, as
\* (a, b) => a.x === b.x does: the values a program computes all agree on it.
CoarseEquals(x, y) == (x \div 4) = (y \div 4)

\* The program created computed s with { equals: coarseEquals }.
CustomEquals(s) == s = "k1" /\ "coarseEquals" \in Prog.calls

Equals(s, x, y) ==
  IF CustomEquals(s) THEN CoarseEquals(x, y) ELSE defaultEquals(x, y)

\* The equality function the program gave to signal s throws on every call:
\* erroringEquals = () => { throw new Error("Equality check failed") }.
EqualsThrows(s) == s = "b" /\ "erroringEquals" \in Prog.calls

(***************************************************************************)
(* The functions below call one another, and user code, recursively.       *)
(* Every such call goes through Call(st, f, args), which dispatches on the *)
(* name of the function called.                                            *)
(***************************************************************************)
RECURSIVE Call(_, _, _)

\* The getter of signal s is called while the body of an effect or a
\* compute function is the innermost function running: a tracked read of
\* that node.
NoteRead(st, s) ==
  IF st.activeEffects # <<>>
  THEN [st EXCEPT !.tracked[Top(st)] = @ \cup {s},
                  !.everTracked[Top(st)] = @ \cup {s}]
  ELSE st

\* The getters registering the active node before the computed recomputes.
GetSubscribesFirst(st, s) ==
  LET s0 == NoteRead(st, s)
      s1 == IF s0.activeEffects # <<>> THEN addEffect(s0, s, Top(s0)) ELSE s0
      s2 == IF s \in Computeds /\ s1.dirty[s]
            THEN Call(s1, "recompute", <<s>>) ELSE s1
  IN IF ~Ok(s2) THEN s2 ELSE [s2 EXCEPT !.ret = s2.value[s]]

\* Signal.value (getter) and Computed.value (getter).
\* The getter that registers every node of the stack, not its top.
GetSubscribesStack(st, s) ==
  LET s0 == NoteRead(st, s)
      s1 == IF s \in Computeds /\ s0.dirty[s]
            THEN Call(s0, "recompute", <<s>>) ELSE s0
      All(t, i) == LET RECURSIVE Reg(_, _)
                       Reg(u, j) == IF j > Len(u.activeEffects) THEN u
                                    ELSE Reg(addEffect(u, s, u.activeEffects[j]), j + 1)
                   IN Reg(t, i)
  IN IF ~Ok(s1) THEN s1
     ELSE [All(s1, 1) EXCEPT !.ret = s1.value[s]]

Get(st, s) ==
  IF s \in Cells
  THEN LET s0 == NoteRead(st, s)
           s1 == IF s0.activeEffects # <<>> THEN addEffect(s0, s, Top(s0)) ELSE s0
       IN [s1 EXCEPT !.ret = s1.value[s]]
  ELSE LET s0 == NoteRead(st, s)
           s1 == IF s0.dirty[s] THEN Call(s0, "recompute", <<s>>) ELSE s0
       IN IF ~Ok(s1) THEN s1
          ELSE LET s2 == IF s1.activeEffects # <<>>
                         THEN addEffect(s1, s, Top(s1)) ELSE s1
               IN [s2 EXCEPT !.ret = s2.value[s]]

\* Signal.peek.
Peek(st, s) == [st EXCEPT !.ret = st.value[s]]

\* The compute function of computed k, run with the marker on the stack.
\* inFn[k] holds while an invocation of it is executing; reentered records
\* an invocation begun while another one of the same computed was executing.
computeFn(st, k) ==
  LET f == Prog.fn[k]
      s0 == [st EXCEPT !.computes[k] = @ + 1, !.inFn[k] = TRUE,
                       !.reentered = @ \/ st.inFn[k]]
      out(t) == [t EXCEPT !.inFn[k] = st.inFn[k]]
  IN CASE f.op = "selfadd" ->
            LET s1 == Call(s0, "Get", <<k>>)
                s2 == Call(s1, "Get", <<f.x>>)
            IN out(IF ~Ok(s1) THEN s1
                   ELSE IF ~Ok(s2) THEN s2
                   ELSE [s2 EXCEPT !.ret = Add(s2.ret, 1)])
       [] f.op = "add1" ->
            LET s1 == Call(s0, "Get", <<f.x>>)
            IN out(IF Ok(s1) THEN [s1 EXCEPT !.ret = Add(s1.ret, 1)] ELSE s1)
       [] f.op = "sum" ->
            LET s1 == Call(s0, "Get", <<f.x>>)
                s2 == Call(s1, "Get", <<f.y>>)
            IN out(IF ~Ok(s1) THEN s1
               ELSE IF ~Ok(s2) THEN s2
               ELSE [s2 EXCEPT !.ret = Add(s1.ret, s2.ret)])
       [] f.op = "cond" ->
            LET s1 == Call(s0, "Get", <<f.x>>)
            IN out(IF ~Ok(s1) THEN s1
               ELSE IF Truthy(s1.ret) THEN Call(s1, "Get", <<f.y>>)
               ELSE [s1 EXCEPT !.ret = 0])
       [] f.op = "guard" ->
            LET s1 == Call(s0, "Get", <<f.x>>)
                s2 == Call(s1, "Get", <<f.y>>)
            IN out(IF ~Ok(s1) THEN s1
               ELSE IF Truthy(s1.ret) THEN [s1 EXCEPT !.err = "compute"]
               ELSE IF ~Ok(s2) THEN s2
               ELSE [s2 EXCEPT !.ret = Add(s2.ret, 1)])
       [] f.op = "trap" ->
            LET s1 == Call(s0, "Get", <<f.x>>)
                s2 == Call(s1, "Get", <<f.y>>)
            IN out(IF ~Ok(s1) THEN s1
               ELSE IF ~Truthy(s1.ret) THEN [s1 EXCEPT !.ret = 0]
               ELSE IF ~Ok(s2) THEN s2
               ELSE [s2 EXCEPT !.err = "compute"])
       [] OTHER -> out([s0 EXCEPT !.ret = Undefined])

\* The loop of recompute over effectsToRun = Array.from(this._effects),
\* from its i-th element on.
NotifyComputed(st, k, effectsToRun, i) ==
  IF i > Len(effectsToRun) THEN st
  ELSE LET effect == effectsToRun[i]
           s1 == IF st.disposed[effect] THEN removeEffect(st, k, effect)
                 ELSE IF effect # MarkerOf(k) THEN scheduleEffect(st, effect)
                 ELSE st
       IN Call(s1, "NotifyComputed", <<k, effectsToRun, i + 1>>)

\* recompute with this.dirty = false in the finally block: the flag is
\* cleared when the compute function throws, too.
recomputeClearsDirtyOnThrow(st, k) ==
  IF st.isComputing[k] THEN st
  ELSE LET m == MarkerOf(k)
           s1 == RemoveFromAll([st EXCEPT !.isComputing[k] = TRUE], m, st.sources[k])
           s2 == Push([s1 EXCEPT !.sources[k] = {}, !.dependencies[m] = {},
                                 !.tracked[m] = {}], m)
           s3 == Call(s2, "computeFn", <<k>>)
           newValue == s3.ret
           hasChanged == s3.dirty[k] \/ ~Equals(k, s3.value[k], newValue)
           s4 == IF hasChanged
                 THEN Call([s3 EXCEPT !.value[k] = newValue], "NotifyComputed",
                           <<k, ArrayFrom(s3.effects[k]), 1>>)
                 ELSE s3
           s5 == IF Ok(s3)
                 THEN [s4 EXCEPT !.dirty[k] = FALSE,
                                 !.sources[k] = @ \cup s4.dependencies[m]]
                 ELSE [s3 EXCEPT !.dirty[k] = FALSE]
       IN Ended(st, [Pop(s5) EXCEPT !.isComputing[k] = FALSE])

\* recompute takes the changed branch with a result that this.equals deems
\* equal to the cached value, and the branch has something to do: a value
\* to replace or a dependent to schedule.
EqualButChanged(st, k, newValue) ==
  /\ Equals(k, st.value[k], newValue)
  /\ \/ newValue # st.value[k]
     \/ \E i \in 1..Len(st.effects[k]) :
          /\ st.effects[k][i] \notin {Tomb, MarkerOf(k)}
          /\ ~st.disposed[st.effects[k][i]]

\* recompute with this.isComputing = false after the try block instead of in
\* its finally block: the flag stays set when the compute function throws.
recomputeLeavesFlagOnThrow(st, k) ==
  IF st.isComputing[k] THEN [st EXCEPT !.refused = TRUE]
  ELSE LET m == MarkerOf(k)
           s1 == RemoveFromAll([st EXCEPT !.isComputing[k] = TRUE], m, st.sources[k])
           s2 == Push([s1 EXCEPT !.sources[k] = {}, !.dependencies[m] = {},
                                 !.tracked[m] = {}], m)
           s3 == Call(s2, "computeFn", <<k>>)
           newValue == s3.ret
           hasChanged == s3.dirty[k] \/ ~Equals(k, s3.value[k], newValue)
           s4 == IF hasChanged
                 THEN Call([s3 EXCEPT !.value[k] = newValue,
                                      !.equalChanged =
                                         @ \/ EqualButChanged(s3, k, newValue)],
                           "NotifyComputed", <<k, ArrayFrom(s3.effects[k]), 1>>)
                 ELSE s3
           s5 == IF Ok(s3)
                 THEN [s4 EXCEPT !.dirty[k] = FALSE,
                                 !.sources[k] = @ \cup s4.dependencies[m]]
                 ELSE s3
       IN Ended(st, [Pop(s5) EXCEPT !.isComputing[k] = ~Ok(s3)])

\* Computed.recompute.
recompute(st, k) ==
  IF st.isComputing[k] THEN [st EXCEPT !.refused = TRUE]
  ELSE LET m == MarkerOf(k)
           s1 == RemoveFromAll([st EXCEPT !.isComputing[k] = TRUE], m, st.sources[k])
           s2 == Push([s1 EXCEPT !.sources[k] = {}, !.dependencies[m] = {},
                                 !.tracked[m] = {}], m)
           s3 == Call(s2, "computeFn", <<k>>)
           newValue == s3.ret
           hasChanged == s3.dirty[k] \/ ~Equals(k, s3.value[k], newValue)
           s4 == IF hasChanged
                 THEN Call([s3 EXCEPT !.value[k] = newValue,
                                      !.equalChanged =
                                         @ \/ EqualButChanged(s3, k, newValue)],
                           "NotifyComputed", <<k, ArrayFrom(s3.effects[k]), 1>>)
                 ELSE s3
           s5 == IF Ok(s3)
                 THEN [s4 EXCEPT !.dirty[k] = FALSE,
                                 !.sources[k] = @ \cup s4.dependencies[m]]
                 ELSE s3
       IN Ended(st, [Pop(s5) EXCEPT !.isComputing[k] = FALSE])

\* The loop of markDirtyEffect without the sync branch: a downstream marker
\* is handed to the scheduler like an effect.
MarkLoopSchedulesMarkers(st, k, i) ==
  IF ~Ok(st) \/ i > Len(st.effects[k]) THEN st
  ELSE LET eff == st.effects[k][i]
       IN IF eff = Tomb \/ eff = MarkerOf(k) THEN Call(st, "MarkLoop", <<k, i + 1>>)
          ELSE Call(scheduleEffect(st, eff), "MarkLoop", <<k, i + 1>>)

\* The loop of markDirtyEffect with the sync branch only: an effect that
\* reads the computed is not scheduled.
MarkLoopSkipsEffects(st, k, i) ==
  IF ~Ok(st) \/ i > Len(st.effects[k]) THEN st
  ELSE LET eff == st.effects[k][i]
       IN IF eff = Tomb \/ eff = MarkerOf(k) THEN Call(st, "MarkLoop", <<k, i + 1>>)
          ELSE IF IsSync(eff)
          THEN IF st.fuel = 0 THEN [st EXCEPT !.err = "hang"]
               ELSE Call(CatchAndLog(Call([st EXCEPT !.fuel = @ - 1],
                                          "markDirtyEffect", <<CompOf(eff)>>)),
                         "MarkLoop", <<k, i + 1>>)
          ELSE Call(st, "MarkLoop", <<k, i + 1>>)

\* The loop of markDirtyEffect over this._effects, the live Set: i is the
\* iterator's position.
MarkLoop(st, k, i) ==
  IF ~Ok(st) \/ i > Len(st.effects[k]) THEN st
  ELSE LET eff == st.effects[k][i]
       IN IF eff = Tomb \/ eff = MarkerOf(k) THEN Call(st, "MarkLoop", <<k, i + 1>>)
          ELSE IF IsSync(eff)
          THEN IF st.fuel = 0 THEN [st EXCEPT !.err = "hang"]
               ELSE Call(CatchAndLog(Call([st EXCEPT !.fuel = @ - 1],
                                          "markDirtyEffect", <<CompOf(eff)>>)),
                         "MarkLoop", <<k, i + 1>>)
          ELSE Call(scheduleEffect(st, eff), "MarkLoop", <<k, i + 1>>)

\* Computed.markDirtyEffect, the marker of computed k.
markDirtyEffect(st, k) ==
  IF st.dirty[k] THEN st
  ELSE LET s1 == [st EXCEPT !.dirty[k] = TRUE]
           s2 == IF Prog.eager[k] /\ ~s1.isComputing[k]
                 THEN Call(s1, "recompute", <<k>>) ELSE s1
       IN Call(s2, "MarkLoop", <<k, 1>>)

\* The loop of the setter with the sync branch taken only outside a batch:
\* inside a batch a marker is handed to the scheduler.
NotifyCellDefersInBatch(st, c, effectsToRun, i) ==
  IF ~Ok(st) \/ i > Len(effectsToRun) THEN st
  ELSE LET effect == effectsToRun[i]
           s1 == IF st.disposed[effect] THEN removeEffect(st, c, effect)
                 ELSE IF IsSync(effect) /\ st.batchDepth = 0
                 THEN CatchAndLog(Call(st, "markDirtyEffect", <<CompOf(effect)>>))
                 ELSE scheduleEffect(st, effect)
       IN Call(s1, "NotifyCell", <<c, effectsToRun, i + 1>>)

\* The loop of the setter without the try/catch around a sync marker.
NotifyCellNoCatch(st, c, effectsToRun, i) ==
  IF ~Ok(st) \/ i > Len(effectsToRun) THEN st
  ELSE LET effect == effectsToRun[i]
           s1 == IF st.disposed[effect] THEN removeEffect(st, c, effect)
                 ELSE IF IsSync(effect)
                 THEN Call(st, "markDirtyEffect", <<CompOf(effect)>>)
                 ELSE scheduleEffect(st, effect)
       IN Call(s1, "NotifyCell", <<c, effectsToRun, i + 1>>)

\* The loop of the setter over effectsToRun = Array.from(this._effects),
\* from its i-th element on.
NotifyCell(st, c, effectsToRun, i) ==
  IF ~Ok(st) \/ i > Len(effectsToRun) THEN st
  ELSE LET effect == effectsToRun[i]
           s1 == IF st.disposed[effect] THEN removeEffect(st, c, effect)
                 ELSE IF IsSync(effect)
                 THEN CatchAndLog(Call(st, "markDirtyEffect", <<CompOf(effect)>>))
                 ELSE scheduleEffect(st, effect)
       IN Call(s1, "NotifyCell", <<c, effectsToRun, i + 1>>)

\* Signal.value (setter) comparing after it has stored and notified.
SignalSetComparesLast(st, c, newValue) ==
  LET s1 == [st EXCEPT !.value[c] = newValue, !.inWrite = @ + 1]
      s2 == Call(s1, "NotifyCell", <<c, ArrayFrom(s1.effects[c]), 1>>)
      s3 == [s2 EXCEPT !.inWrite = @ - 1]
  IN IF EqualsThrows(c) THEN [s3 EXCEPT !.err = "equals"]
     ELSE IF ~Equals(c, st.value[c], newValue) THEN s3
     ELSE st

\* Signal.value (setter).
SignalSet(st, c, newValue) ==
  IF EqualsThrows(c) THEN [st EXCEPT !.err = "equals"]
  ELSE IF ~Equals(c, st.value[c], newValue)
  THEN LET s1 == [st EXCEPT !.value[c] = newValue, !.inWrite = @ + 1]
           s2 == Call(s1, "NotifyCell", <<c, ArrayFrom(s1.effects[c]), 1>>)
       IN [s2 EXCEPT !.inWrite = @ - 1]
  ELSE st

\* Computed.value (setter) inheriting Signal's setter instead of overriding it.
ComputedSetStores(st, k, v) == Call(st, "SignalSet", <<k, v>>)

\* Computed.value (setter), and the setter of the accessor's value property.
ComputedSet(st, k, v) ==
  [st EXCEPT !.err = "readonly",
             !.message = <<"Cannot set value of a computed signal">>]

\* createWritableSignal: signalAccessor called with an argument, s(next);
\* updater says that next is a function, here prev => v.
signalAccessor(st, c, v, updater) ==
  LET s1 == IF updater THEN Call(st, "Get", <<c>>) ELSE st
      s2 == Call(s1, "SignalSet", <<c, v>>)
  IN IF Ok(s2) THEN Call(s2, "Get", <<c>>) ELSE s2

\* What a write is not to touch when it writes the value the cell holds.
Graph(st) ==
  <<st.value, [s \in Signals |-> ArrayFrom(st.effects[s])], st.dependencies,
    st.sources, st.dirty, st.pendingEffects, st.isFlushing, st.microtasks>>

\* A write of the literal v to cell c, as user code makes it: c.value = v
\* (the property setter) or c(v) and c.set(v) (the accessor).  The call is
\* flagged when v equals the held value and the call changed something.
WriteCall(st, c, v, form) ==
  LET s1 == IF form = "setter" THEN Call(st, "SignalSet", <<c, v>>)
            ELSE Call(st, "signalAccessor", <<c, v, FALSE>>)
  IN IF Equals(c, st.value[c], v) /\ Graph(s1) # Graph(st)
     THEN [s1 EXCEPT !.noopChanged = TRUE] ELSE s1

(***************************************************************************)
(* Effects.                                                                *)
(***************************************************************************)
\* The dispose closure returned by effect().
dispose(st, e) ==
  RemoveFromAll([st EXCEPT !.disposed[e] = TRUE,
                           !.killedAt[e] = IF @ = NoVal THEN st.runs[e] ELSE @],
                e, st.dependencies[e])

\* One instruction of the body of effect e; acc is the body's local.
ExecIns(st, e, ins, acc) ==
  CASE ins.i = "read" ->
         LET s1 == Call(st, "Get", <<ins.s>>)
         IN IF Ok(s1) THEN [s1 EXCEPT !.seen[e][ins.s] = s1.ret] ELSE s1
    [] ins.i = "writeacc" -> Call(st, "SignalSet", <<ins.s, acc>>)
    [] ins.i = "write" ->
         IF ins.f = "updater"
         THEN Call(st, "signalAccessor", <<ins.s, ins.v, TRUE>>)
         ELSE Call(st, "WriteCall", <<ins.s, ins.v, ins.f>>)
    [] ins.i = "toggle" ->
         LET s1 == Call(st, "Get", <<ins.s>>)
         IN Call(s1, "SignalSet", <<ins.s, 1 - s1.ret>>)
    [] ins.i = "incbelow" ->
         LET s1 == Call(st, "Get", <<ins.s>>)
         IN IF s1.ret < ins.v THEN Call(s1, "SignalSet", <<ins.s, s1.ret + 1>>)
            ELSE s1
    [] ins.i = "dispose" ->
         \* dispose?.(): the closure exists once effect() has returned
         IF st.status[ins.s] = "live" THEN dispose(st, ins.s) ELSE st
    [] ins.i = "ifz" -> st
    [] ins.i = "throw" -> [st EXCEPT !.err = "effect"]
    [] ins.i = "peek" -> Peek(st, ins.s)

\* fn: the body of effect e from instruction pc on.
ExecBody(st, e, pc, acc) ==
  IF ~Ok(st) \/ pc > Len(Prog.body[e]) THEN st
  ELSE LET ins == Prog.body[e][pc]
           s1 == ExecIns(st, e, ins, acc)
           next == IF ins.i = "ifz" /\ ~Truthy(acc) THEN pc + 2 ELSE pc + 1
       IN IF ~Ok(s1) \/ next > Len(Prog.body[e]) THEN s1
          ELSE Call(s1, "ExecBody",
                    <<e, next, IF ins.i = "read" THEN s1.ret ELSE acc>>)

\* What a run of effect e is recorded as: counted, in order, and flagged
\* when a rerun starts inside a write or a batch body, or after dispose().
NoteRun(st, e) ==
  [st EXCEPT !.runs[e] = @ + 1,
             !.order = IF Len(@) < 4 THEN Append(@, e) ELSE @,
             !.seen[e] = NothingSeen,
             !.tracked[e] = {},
             !.owed[e] = IF @ = 0 THEN 0 ELSE IF @ < 3 THEN @ + 1 ELSE 3,
             !.syncRerun = @ \/ (st.status[e] # "none"
                                 /\ (st.inWrite > 0 \/ st.batchDepth > 0)),
             !.zombieRun = @ \/ (st.status[e] # "none" /\ st.disposed[e])]

\* effectRunner without the cleanup: the edges of the previous run stay.
effectRunnerKeepsEdges(st, e) ==
  LET s1 == NoteRun(st, e)
      s3 == Call(Push(s1, e), "ExecBody", <<e, 1, NoVal>>)
  IN [Pop(s3) EXCEPT !.threw[e] = s3.err \notin {"none", "hang"}]

\* effectRunner treating an exception of fn as the end of the effect: the
\* runner is marked disposed before the exception leaves it.
effectRunnerDisposesOnThrow(st, e) ==
  LET s1 == RemoveFromAll(NoteRun(st, e), e, st.dependencies[e])
      s2 == [s1 EXCEPT !.dependencies[e] = {}]
      s3 == Call(Push(s2, e), "ExecBody", <<e, 1, NoVal>>)
  IN Ended(st, [Pop(s3) EXCEPT !.threw[e] = s3.err \notin {"none", "hang"},
                               !.disposed[e] = @ \/ s3.err \notin {"none", "hang"}])

\* effectRunner with activeEffects.pop() after the try block instead of in
\* its finally block: the runner stays on the stack when fn throws.
effectRunnerPopsOnReturn(st, e) ==
  LET s1 == RemoveFromAll(NoteRun(st, e), e, st.dependencies[e])
      s2 == [s1 EXCEPT !.dependencies[e] = {}]
      s3 == Call(Push(s2, e), "ExecBody", <<e, 1, NoVal>>)
  IN Ended(st, [(IF Ok(s3) THEN Pop(s3) ELSE s3)
                  EXCEPT !.threw[e] = s3.err \notin {"none", "hang"}])

\* effectRunner, the node of effect e.
effectRunner(st, e) ==
  LET s1 == RemoveFromAll(NoteRun(st, e), e, st.dependencies[e])
      s2 == [s1 EXCEPT !.dependencies[e] = {}]
      s3 == Call(Push(s2, e), "ExecBody", <<e, 1, NoVal>>)
  IN Ended(st, [Pop(s3) EXCEPT !.threw[e] = s3.err \notin {"none", "hang"}])

\* effect(fn): the registration and the first run.
effect(st, e) ==
  LET s1 == [st EXCEPT !.disposed[e] = FALSE, !.dependencies[e] = {}]
      s2 == Call(s1, "effectRunner", <<e>>)
  IN [s2 EXCEPT !.status[e] = IF Ok(s2) THEN "live" ELSE "failed"]

(***************************************************************************)
(* The scheduler.                                                          *)
(***************************************************************************)
\* A pending node is an effect's runner or, scheduled by recompute, a marker.
RunNode(st, n) ==
  IF n \in Markers THEN Call(st, "markDirtyEffect", <<CompOf(n)>>)
  ELSE Call(st, "effectRunner", <<n>>)

\* The loop of flushEffects without the disposed check.
RunAllNoDisposedCheck(st, toRun, i) ==
  IF ~Ok(st) \/ i > Len(toRun) THEN st
  ELSE Call(CatchAndLog(RunNode(st, toRun[i])), "RunAll", <<toRun, i + 1>>)

\* The loop of flushEffects without the try/catch around effect().
RunAllNoCatch(st, toRun, i) ==
  IF ~Ok(st) \/ i > Len(toRun) THEN st
  ELSE Call(IF st.disposed[toRun[i]] THEN [st EXCEPT !.skipped = @ + 1]
            ELSE RunNode(st, toRun[i]),
            "RunAll", <<toRun, i + 1>>)

\* The loop of flushEffects running the snapshot from its newest element to
\* its oldest.
RunAllNewestFirst(st, toRun, i) ==
  IF ~Ok(st) \/ i > Len(toRun) THEN st
  ELSE Call(IF st.disposed[toRun[Len(toRun) + 1 - i]] THEN [st EXCEPT !.skipped = @ + 1]
            ELSE CatchAndLog(RunNode(st, toRun[Len(toRun) + 1 - i])),
            "RunAll", <<toRun, i + 1>>)

\* for (const effect of effects) of flushEffects, from the i-th on.
RunAll(st, toRun, i) ==
  IF ~Ok(st) \/ i > Len(toRun) THEN st
  ELSE LET s1 == IF st.disposed[toRun[i]] THEN [st EXCEPT !.skipped = @ + 1]
                 ELSE CatchAndLog(RunNode(st, toRun[i]))
       IN IF ~Ok(s1) \/ i >= Len(toRun) THEN s1
          ELSE Call(s1, "RunAll", <<toRun, i + 1>>)

\* A pass with the ceiling check off by one: iterations >= MAX_FLUSH_ITERATIONS.
DrainPassCeilingOffByOne(st) ==
  IF ~Ok(st) \/ st.pendingEffects = <<>> THEN st
  ELSE IF st.iterations + 1 >= MAX_FLUSH_ITERATIONS
  THEN [st EXCEPT !.pendingEffects = <<>>,
                  !.err = "overrun",
                  !.message = <<MAX_FLUSH_ITERATIONS, Len(st.pendingEffects)>>]
  ELSE Call([st EXCEPT !.pendingEffects = <<>>,
                       !.iterations = @ + 1],
            "RunAll", <<st.pendingEffects, 1>>)

\* A pass that leaves out the nodes disposed when it takes its snapshot and
\* runs the others without looking at the flag again.
DrainPassChecksAtSnapshot(st) ==
  IF ~Ok(st) \/ st.pendingEffects = <<>> THEN st
  ELSE IF st.iterations + 1 > MAX_FLUSH_ITERATIONS
  THEN [st EXCEPT !.pendingEffects = <<>>,
                  !.err = "overrun",
                  !.message = <<MAX_FLUSH_ITERATIONS, Len(st.pendingEffects)>>]
  ELSE LET toRun == SelectSeq(st.pendingEffects, LAMBDA n : ~st.disposed[n])
           RECURSIVE Run(_, _)
           Run(s, i) == IF ~Ok(s) \/ i > Len(toRun) THEN s
                        ELSE Run(CatchAndLog(RunNode(s, toRun[i])), i + 1)
       IN Run([st EXCEPT !.pendingEffects = <<>>,
                         !.iterations = @ + 1,
                         !.passes = IF Len(@) < 2 THEN Append(@, st.pendingEffects) ELSE @,
                         !.skipped = @ + Len(st.pendingEffects) - Len(toRun)], 1)

\* One pass of while (pendingEffects.size > 0) of flushEffects: the test of
\* the loop, the ceiling check, and the run of a snapshot of the pending set.
DrainPass(st) ==
  IF ~Ok(st) \/ st.pendingEffects = <<>> THEN st
  ELSE IF st.iterations + 1 > MAX_FLUSH_ITERATIONS
  THEN [st EXCEPT !.pendingEffects = <<>>,
                  !.err = "overrun",
                  !.message = <<MAX_FLUSH_ITERATIONS, Len(st.pendingEffects)>>]
  ELSE Call([st EXCEPT !.pendingEffects = <<>>,
                       !.iterations = @ + 1,
                       !.passes = IF Len(@) < 2 THEN Append(@, st.pendingEffects) ELSE @],
            "RunAll", <<st.pendingEffects, 1>>)

\* flushEffects with an if for the while: one pass, whatever it schedules.
DrainLoopOnePass(st, n) == Call(st, "DrainPass", <<>>)

\* The while loop of flushEffects, as n passes in sequence (a pass after the
\* loop has ended does nothing).  The passes are split in halves to keep the
\* evaluation shallow.
DrainLoop(st, n) ==
  IF ~Ok(st) \/ st.pendingEffects = <<>> THEN st
  ELSE IF n <= 1 THEN Call(st, "DrainPass", <<>>)
  ELSE LET s1 == Call(st, "DrainLoop", <<n \div 2>>)
       IN IF ~Ok(s1) \/ s1.pendingEffects = <<>> THEN s1
          ELSE Call(s1, "DrainLoop", <<n - (n \div 2)>>)

\* The drain with isFlushing = false after the try block instead of in its
\* finally block: the flag stays set when the ceiling error is thrown.
DrainKeepsFlagOnThrow(st) ==
  LET s1 == Call([st EXCEPT !.iterations = 0],
                 "DrainLoop", <<MAX_FLUSH_ITERATIONS + 1>>)
  IN IF s1.err = "overrun" THEN s1 ELSE [s1 EXCEPT !.isFlushing = FALSE]

\* The callback of flushEffects: the drain, run as a microtask.  The ceiling
\* ends the loop in at most MAX_FLUSH_ITERATIONS + 1 passes.
Drain(st) ==
  LET s1 == Call([st EXCEPT !.iterations = 0],
                 "DrainLoop", <<MAX_FLUSH_ITERATIONS + 1>>)
  IN [s1 EXCEPT !.isFlushing = FALSE]

\* flushEffects(): queues the drain and returns its promise.
flushEffects(st) == [st EXCEPT !.microtasks = Append(@, "drain")]

\* batch(fn), up to the call of fn.
BatchBegin(st) == [st EXCEPT !.batchDepth = @ + 1]

\* The finally block of batch draining the pending set itself, before batch
\* returns, instead of queueing the drain.
BatchEndDrainsInline(st) ==
  LET s1 == [st EXCEPT !.batchDepth = @ - 1]
  IN IF s1.batchDepth = 0 THEN Call(s1, "Drain", <<>>) ELSE s1

\* The finally block of batch without the test of the depth: every exit,
\* of an inner batch too, queues a drain.
BatchEndFlushesAlways(st) ==
  flushEffects([st EXCEPT !.batchDepth = @ - 1])

\* batch(fn), the finally block.
BatchEnd(st) ==
  LET s1 == [st EXCEPT !.batchDepth = @ - 1]
  IN IF s1.batchDepth = 0 THEN flushEffects(s1) ELSE s1

(***************************************************************************)
(* scopeCleanup: the registry of disposers per scope handle.  reg is the   *)
(* registry threaded through one report of a removal, with err and logged  *)
(* as in the runtime state.                                                *)
(***************************************************************************)
\* The loop of cleanupNode without the try/catch around dispose().
RunDisposersNoCatch(reg, list, i) ==
  IF reg.err # "none" \/ i > Len(list) THEN reg
  ELSE LET d == list[i]
           r1 == [reg EXCEPT !.called[d] = @ + 1,
                             !.err = IF reg.throwsOn[d] THEN "dispose" ELSE "none"]
       IN Call(r1, "RunDisposers", <<list, i + 1>>)

\* for (const dispose of Array.from(disposers)) of cleanupNode, from the
\* i-th on.
RunDisposers(reg, list, i) ==
  IF reg.err # "none" \/ i > Len(list) THEN reg
  ELSE LET d == list[i]
           r1 == [reg EXCEPT !.called[d] = @ + 1,
                             !.err = IF reg.throwsOn[d] THEN "dispose" ELSE "none"]
       IN Call(CatchAndLog(r1), "RunDisposers", <<list, i + 1>>)

\* The loop of cleanupNode over node.childNodes, from the i-th on.
CleanupChildren(reg, n, i) ==
  IF reg.err # "none" \/ i > Len(childNodes(n)) THEN reg
  ELSE Call(Call(reg, "cleanupNode", <<childNodes(n)[i]>>),
            "CleanupChildren", <<n, i + 1>>)

\* cleanupNode(node).
cleanupNode(reg, n) ==
  LET disposers == reg.cleanupByNode[n]
      r1 == IF disposers # <<>>
            THEN LET r0 == Call(reg, "RunDisposers", <<disposers, 1>>)
                 IN IF r0.err = "none" THEN [r0 EXCEPT !.cleanupByNode[n] = <<>>]
                    ELSE r0
            ELSE reg
  IN Call(r1, "CleanupChildren", <<n, 1>>)

(***************************************************************************)
(* The persist middleware over a store with the one field count.  An       *)
(* update is a partial state { count: 7 } ("lit"), an updater function     *)
(* state => ({ count: state.count + 1 }) ("inc"), or a partial state that  *)
(* names a method of the store ("method"), which the store's set refuses.  *)
(* ps is the store and the middleware's variables threaded through one     *)
(* callback, with err and logged as in the runtime state.                  *)
(***************************************************************************)
Updates == {"lit", "inc", "method"}
Literal == 7         \* the count a "lit" update sets
Loaded == 5          \* the count of the stored state

\* The store's set(partialUpdate).
storeSet(ps, u) ==
  CASE u = "lit" -> [ps EXCEPT !.storeCount = Literal]
    [] u = "inc" -> [ps EXCEPT !.storeCount = @ + 1]
    [] u = "method" -> [ps EXCEPT !.err = "set"]

\* saveToStorage(get()).
saveToStorage(ps) == [ps EXCEPT !.saved = ps.storeCount]

\* for (const update of pendingUpdates) set(update), from the i-th on.
ApplyPending(ps, i) ==
  IF ps.err # "none" \/ i > Len(ps.pendingUpdates) THEN ps
  ELSE LET p1 == storeSet(ps, ps.pendingUpdates[i])
       IN Call(IF p1.err = "none" THEN [p1 EXCEPT !.applied = Append(@, i)] ELSE p1,
               "ApplyPending", <<i + 1>>)

\* What both callbacks do with the queue: apply it, empty it, save.
FlushPending(ps) ==
  IF ps.pendingUpdates = <<>> THEN ps
  ELSE LET p1 == Call(ps, "ApplyPending", <<1>>)
       IN IF p1.err # "none" THEN p1
          ELSE saveToStorage([p1 EXCEPT !.pendingUpdates = <<>>])

\* The callback of storage.getItem(name).then: stored is what the storage
\* holds ("state": a state of this version, "old": another version,
\* "garbage": not JSON, "nothing"), hookThrows says that onHydrated throws.
onLoaded(ps, stored, hookThrows) ==
  LET p1 == IF stored = "state" THEN [ps EXCEPT !.storeCount = Loaded]
            ELSE IF stored = "garbage" THEN [ps EXCEPT !.logged = @ + 1]
            ELSE ps
      p2 == [p1 EXCEPT !.isHydrated = TRUE]
  IN IF hookThrows THEN [p2 EXCEPT !.err = "hook"] ELSE FlushPending(p2)

\* The callback of .catch, which follows .then in the chain: it runs when
\* getItem rejects and when the callback of .then throws.
onLoadFailed(ps) ==
  FlushPending([ps EXCEPT !.isHydrated = TRUE, !.err = "none", !.logged = @ + 1])

\* The chain storage.getItem(name).then(...).catch(...), once getItem has
\* settled.
hydrate(ps, stored, hookThrows) ==
  IF stored = "rejected" THEN onLoadFailed(ps)
  ELSE LET p1 == onLoaded(ps, stored, hookThrows)
       IN IF p1.err # "none" THEN onLoadFailed(p1) ELSE p1

\* persistentSet(partial).
persistentSet(ps, u) ==
  IF ~ps.isHydrated THEN [ps EXCEPT !.pendingUpdates = Append(@, u)]
  ELSE LET p1 == storeSet(ps, u)
       IN IF p1.err # "none" THEN p1 ELSE saveToStorage(p1)

Call(st, f, args) ==
  CASE f = "Get" -> Get(st, args[1])
    [] f = "computeFn" -> computeFn(st, args[1])
    [] f = "recompute" -> recompute(st, args[1])
    [] f = "NotifyComputed" -> NotifyComputed(st, args[1], args[2], args[3])
    [] f = "markDirtyEffect" -> markDirtyEffect(st, args[1])
    [] f = "MarkLoop" -> MarkLoop(st, args[1], args[2])
    [] f = "NotifyCell" -> NotifyCell(st, args[1], args[2], args[3])
    [] f = "SignalSet" -> SignalSet(st, args[1], args[2])
    [] f = "signalAccessor" -> signalAccessor(st, args[1], args[2], args[3])
    [] f = "WriteCall" -> WriteCall(st, args[1], args[2], args[3])
    [] f = "ExecBody" -> ExecBody(st, args[1], args[2], args[3])
    [] f = "effectRunner" -> effectRunner(st, args[1])
    [] f = "effect" -> effect(st, args[1])
    [] f = "dispose" -> dispose(st, args[1])
    [] f = "RunAll" -> RunAll(st, args[1], args[2])
    [] f = "DrainPass" -> DrainPass(st)
    [] f = "DrainLoop" -> DrainLoop(st, args[1])
    [] f = "Drain" -> Drain(st)
    [] f = "ApplyPending" -> ApplyPending(st, args[1])
    [] f = "RunDisposers" -> RunDisposers(st, args[1], args[2])
    [] f = "CleanupChildren" -> CleanupChildren(st, args[1], args[2])
    [] f = "cleanupNode" -> cleanupNode(st, args[1])

(***************************************************************************)
(* The calls of the embedding program and the microtasks, as actions.      *)
(***************************************************************************)
MaxBatch == 2        \* batches nested in the embedding program

\* The state after a call: the Sets without their emptied entries, and the
\* record of what the call did.
Commit(st, op, arg) ==
  /\ scn' = scn
  /\ value' = st.value
  /\ effects' = [s \in Signals |-> ArrayFrom(st.effects[s])]
  /\ dependencies' = st.dependencies
  /\ sources' = st.sources
  /\ dirty' = st.dirty
  /\ disposed' = st.disposed
  /\ isComputing' = st.isComputing
  /\ activeEffects' = st.activeEffects
  /\ status' = st.status
  /\ pendingEffects' = st.pendingEffects
  /\ isFlushing' = st.isFlushing
  /\ batchDepth' = st.batchDepth
  /\ microtasks' = st.microtasks
  /\ seen' = st.seen
  /\ tracked' = st.tracked
  /\ everTracked' = st.everTracked
  /\ threw' = st.threw
  /\ lastRead' = IF \E c \in Cells : st.value[c] # value[c] THEN "-"
                 ELSE IF op = "read" /\ st.err = "none" THEN arg
                 ELSE lastRead
  /\ owed' = st.owed
  /\ hung' = (st.err = "hang")
  /\ UNCHANGED <<cleanupByNode, throwsOn, called>>
  /\ UNCHANGED <<isHydrated, pendingUpdates, storeCount, applied, saved, setCalls>>
  /\ last' = [op |-> op, arg |-> arg, ret |-> st.ret,
              err |-> st.err, message |-> st.message, runs |-> st.runs,
              order |-> st.order, computes |-> st.computes,
              logged |-> st.logged, iterations |-> st.iterations,
              skipped |-> st.skipped, syncRerun |-> st.syncRerun,
              zombieRun |-> st.zombieRun, noopChanged |-> st.noopChanged,
              equalChanged |-> st.equalChanged, passes |-> st.passes,
              killedAt |-> st.killedAt, reentered |-> st.reentered,
              refused |-> st.refused, unbalanced |-> st.unbalanced,
              overran |-> last.overran \/ st.err = "overrun"]

Idle == [op |-> "init", arg |-> "-", ret |-> NoVal,
         err |-> "none", message |-> <<>>, runs |-> NoRuns, order |-> <<>>,
         computes |-> NoComputes, logged |-> 0, iterations |-> 0,
         skipped |-> 0, syncRerun |-> FALSE, zombieRun |-> FALSE,
         noopChanged |-> FALSE, equalChanged |-> FALSE, passes |-> <<>>,
         killedAt |-> NotKilled, reentered |-> FALSE, refused |-> FALSE,
         unbalanced |-> FALSE, overran |-> FALSE]

\* The runtime before the program has constructed anything but its cells:
\* every cell holds 0, and a computed starts dirty with a dummy value.
Fresh ==
  [value |-> [s \in Signals |-> IF s \in Cells THEN 0 ELSE Undefined],
   effects |-> [s \in Signals |-> <<>>],
   dependencies |-> [n \in Nodes |-> {}],
   sources |-> [k \in Computeds |-> {}],
   dirty |-> [k \in Computeds |-> TRUE],
   disposed |-> [n \in Nodes |-> FALSE],
   status |-> [e \in Effects |-> "none"],
   pendingEffects |-> <<>>, isFlushing |-> FALSE, batchDepth |-> 0,
   microtasks |-> <<>>,
   seen |-> [e \in Effects |-> NothingSeen],
   tracked |-> [n \in Nodes |-> {}],
   everTracked |-> [n \in Nodes |-> {}],
   threw |-> [e \in Effects |-> FALSE], owed |-> NoRuns,
   isComputing |-> [k \in Computeds |-> FALSE],
   activeEffects |-> <<>>,
   ret |-> NoVal, err |-> "none", message |-> <<>>,
   runs |-> NoRuns, order |-> <<>>, computes |-> NoComputes, logged |-> 0,
   iterations |-> 0, skipped |-> 0,
   inWrite |-> 0, syncRerun |-> FALSE, zombieRun |-> FALSE,
   noopChanged |-> FALSE, equalChanged |-> FALSE, passes |-> <<>>,
   killedAt |-> NotKilled,
   inFn |-> [k \in Computeds |-> FALSE],
   reentered |-> FALSE, refused |-> FALSE, unbalanced |-> FALSE,
   fuel |-> MaxFuel]

\* new Computed(computeFn, options): an eager computed is computed by its
\* constructor.
Construct(st, k) ==
  IF Prog.eager[k] THEN Call(st, "recompute", <<k>>) ELSE st

\* The program's computeds are constructed in the order of their names,
\* each after the signals its compute function reads.
Constructed == Construct(Construct(Construct(Fresh, "k1"), "k2"), "k3")

Init ==
  /\ scn \in {Scenarios[i] : i \in 1..Len(Scenarios)}
  /\ value = Constructed.value
  /\ effects = [s \in Signals |-> ArrayFrom(Constructed.effects[s])]
  /\ dependencies = Constructed.dependencies
  /\ sources = Constructed.sources
  /\ dirty = Constructed.dirty
  /\ disposed = Constructed.disposed
  /\ isComputing = Constructed.isComputing
  /\ activeEffects = Constructed.activeEffects
  /\ status = Constructed.status
  /\ pendingEffects = Constructed.pendingEffects
  /\ isFlushing = Constructed.isFlushing
  /\ batchDepth = 0
  /\ microtasks = Constructed.microtasks
  /\ seen = Constructed.seen
  /\ tracked = Constructed.tracked
  /\ everTracked = Constructed.everTracked
  /\ threw = Constructed.threw
  /\ lastRead = "-"
  /\ owed = NoRuns
  /\ hung = FALSE
  /\ last = Idle
  /\ isHydrated = FALSE
  /\ pendingUpdates = <<>>
  /\ storeCount = 0
  /\ applied = <<>>
  /\ saved = NoVal
  /\ setCalls = 0
  /\ cleanupByNode = [n \in Handles |-> <<>>]
  /\ throwsOn = [d \in Disposers |-> FALSE]
  /\ called = [d \in Disposers |-> 0]

UsedComputeds == {k \in Computeds : Prog.fn[k].op # "unused"}

\* The effects that a value-changing write to cell c makes due for a rerun.
DueAfterWrite(c) ==
  {e \in Effects : SetHas(effects[c], e) /\ ~disposed[e]}

\* The bookkeeping of reruns due: a batched write makes its dependents due,
\* a write outside a batch ends the observation.
OwedAfterWrite(c, v) ==
  IF Equals(c, value[c], v) THEN owed
  ELSE IF batchDepth > 0
  THEN [e \in Effects |-> IF e \in DueAfterWrite(c) /\ owed[e] = 0 THEN 1 ELSE owed[e]]
  ELSE NoRuns

\* c.value = v, or c(v), called by the embedding program.
ExtWrite(c, v, form) ==
  /\ ~hung
  /\ c \in Prog.cells /\ v \in Prog.vals
  /\ form = "call" => "call" \in Prog.calls
  /\ LET s0 == [State EXCEPT !.owed = OwedAfterWrite(c, v)]
     IN Commit(Call(s0, "WriteCall", <<c, v, form>>), "write", c)

\* k.value, read by the embedding program.
ExtRead(k) ==
  /\ ~hung
  /\ "read" \in Prog.calls
  /\ k \in UsedComputeds
  /\ Commit(Call(State, "Get", <<k>>), "read", k)

\* k.value = v, attempted by the embedding program.
ExtSetComputed(k, v) ==
  /\ ~hung
  /\ "assign" \in Prog.calls
  /\ k \in UsedComputeds /\ v \in Prog.vals
  /\ Commit(ComputedSet(State, k, v), "assign", k)

\* s.peek(), called by the embedding program.
ExtPeek(s) ==
  /\ ~hung
  /\ "peek" \in Prog.calls
  /\ s \in Prog.cells \cup UsedComputeds
  /\ Commit(Peek(State, s), "peek", s)

\* effect(fn), called by the embedding program.
CreateEffect(e) ==
  /\ ~hung
  /\ status[e] = "none"
  /\ Prog.body[e] # <<>>
  /\ Commit(Call(State, "effect", <<e>>), "effect", e)

\* The dispose closure, called by the embedding program.
ExtDispose(e) ==
  /\ ~hung
  /\ "dispose" \in Prog.calls
  /\ status[e] = "live"
  /\ Commit(Call(State, "dispose", <<e>>), "dispose", e)

\* batch(fn) is entered: the embedding program's next calls are fn's.
BatchEnter ==
  /\ ~hung
  /\ "batch" \in Prog.calls
  /\ batchDepth < MaxBatch
  /\ Len(microtasks) < MaxMicro
  /\ Commit(BatchBegin([State EXCEPT !.owed = IF batchDepth = 0 THEN NoRuns ELSE @]),
            "batchEnter", "-")

\* fn returns or throws: the finally block of batch.
BatchExit(throws) ==
  /\ ~hung
  /\ batchDepth > 0
  /\ Commit([BatchEnd(State) EXCEPT !.err = IF throws THEN "fn" ELSE "none"],
            "batchExit", "-")

\* flushEffects(), called by the embedding program.
CallFlush ==
  /\ ~hung
  /\ "flush" \in Prog.calls
  /\ Len(microtasks) < MaxMicro
  /\ Commit(flushEffects(State), "flush", "-")

\* The microtask at the head of the queue runs, once the synchronous code
\* (a batch body included) has returned.
Microtask ==
  /\ ~hung
  /\ batchDepth = 0
  /\ microtasks # <<>>
  /\ LET job == Head(microtasks)
         s0 == [State EXCEPT !.microtasks = Tail(@)]
     IN IF job = "callFlush"
        THEN Commit(flushEffects(s0), "callFlush", "-")
        ELSE Commit(Call(s0, "Drain", <<>>), "drain", "-")

\* The variables of the reactive runtime, which the registry leaves alone.
runtime ==
  <<scn, value, effects, dependencies, sources, dirty, disposed, status,
    isComputing, activeEffects,
    pendingEffects, isFlushing, batchDepth, microtasks, seen, tracked,
    everTracked, threw, lastRead, owed, hung>>

\* The variables of the persisted store.
persisted ==
  <<isHydrated, pendingUpdates, storeCount, applied, saved, setCalls>>

MaxUpdates == 2      \* calls of the wrapped set

\* The store and the middleware before a callback.
PersistState ==
  [isHydrated |-> isHydrated, pendingUpdates |-> pendingUpdates,
   storeCount |-> storeCount, applied |-> applied, saved |-> saved,
   err |-> "none", logged |-> 0]

\* The store and the middleware after a callback, and what it did.
PersistCommit(ps, op, arg) ==
  /\ isHydrated' = ps.isHydrated
  /\ pendingUpdates' = ps.pendingUpdates
  /\ storeCount' = ps.storeCount
  /\ applied' = ps.applied
  /\ saved' = ps.saved
  /\ last' = [Idle EXCEPT !.op = op, !.arg = arg, !.err = ps.err,
                          !.overran = last.overran,
                          !.logged = ps.logged]
  /\ UNCHANGED <<runtime, cleanupByNode, throwsOn, called>>

\* The wrapped set, called by a method of the store.
PersistentSet(u) ==
  /\ "persist" \in Prog.calls
  /\ setCalls < MaxUpdates
  /\ setCalls' = setCalls + 1
  /\ PersistCommit(persistentSet(PersistState, u), "persistentSet", u)

\* storage.getItem(name) settles and the chain's callbacks run.
Hydrate(stored, hookThrows) ==
  /\ "persist" \in Prog.calls
  /\ ~isHydrated
  /\ setCalls' = setCalls
  /\ PersistCommit(hydrate(PersistState, stored, hookThrows), "hydrate", stored)

\* registerNodeCleanup(node, dispose), called by the embedding program with
\* a disposer it has not registered before.
RegisterNodeCleanup(n, d, throws) ==
  /\ "registerNodeCleanup" \in Prog.calls
  /\ called[d] = 0 /\ \A h \in Handles : ~SetHas(cleanupByNode[h], d)
  /\ cleanupByNode' = [cleanupByNode EXCEPT ![n] = SetAdd(@, d)]
  /\ throwsOn' = [throwsOn EXCEPT ![d] = throws]
  /\ last' = [Idle EXCEPT !.op = "register", !.arg = d,
                          !.overran = last.overran]
  /\ UNCHANGED <<runtime, persisted, called>>

\* The closure returned by registerNodeCleanup(node, dispose).
Unregister(n, d) ==
  /\ SetHas(cleanupByNode[n], d)
  /\ cleanupByNode' = [cleanupByNode EXCEPT ![n] = ArrayFrom(SetDelete(@, d))]
  /\ last' = [Idle EXCEPT !.op = "unregister", !.arg = d,
                          !.overran = last.overran]
  /\ UNCHANGED <<runtime, persisted, throwsOn, called>>

\* The observer's callback for a record whose removedNodes holds node n.
ReportRemoved(n) ==
  /\ "registerNodeCleanup" \in Prog.calls
  /\ LET reg == Call([cleanupByNode |-> cleanupByNode, throwsOn |-> throwsOn,
                      called |-> called, err |-> "none", logged |-> 0],
                     "cleanupNode", <<n>>)
     IN /\ cleanupByNode' = reg.cleanupByNode
        /\ called' = reg.called
        /\ last' = [Idle EXCEPT !.op = "removed", !.arg = n,
                                !.overran = last.overran,
                                !.err = reg.err, !.logged = reg.logged]
  /\ UNCHANGED <<runtime, persisted, throwsOn>>

Next ==
  \/ \E c \in Cells, v \in (0..MaxVal) \cup {NaN}, form \in {"setter", "call"} :
       ExtWrite(c, v, form)
  \/ \E k \in Computeds : ExtRead(k)
  \/ \E s \in Signals : ExtPeek(s)
  \/ \E k \in Computeds, v \in 0..MaxVal : ExtSetComputed(k, v)
  \/ \E e \in Effects : CreateEffect(e)
  \/ \E e \in Effects : ExtDispose(e)
  \/ BatchEnter
  \/ \E throws \in BOOLEAN : BatchExit(throws)
  \/ CallFlush
  \/ Microtask
  \/ \E u \in Updates : PersistentSet(u)
  \/ \E stored \in {"state", "old", "garbage", "nothing", "rejected"},
        hookThrows \in BOOLEAN : Hydrate(stored, hookThrows)
  \/ \E n \in Handles, d \in Disposers, throws \in BOOLEAN :
       RegisterNodeCleanup(n, d, throws)
  \/ \E n \in Handles, d \in Disposers : Unregister(n, d)
  \/ \E n \in Handles : ReportRemoved(n)

Spec == Init /\ [][Next]_vars


(***************************************************************************)
(* Properties.                                                             *)
(***************************************************************************)
RECURSIVE Expected(_)

\* The value the compute function of s yields over the values the cells
\* hold now (for a cell: the value it holds).
Expected(s) ==
  IF s \in Cells THEN value[s]
  ELSE LET f == Prog.fn[s]
       IN CASE f.op = "add1" -> Add(Expected(f.x), 1)
            [] f.op = "sum" -> Add(Expected(f.x), Expected(f.y))
            [] f.op = "cond" -> IF Truthy(Expected(f.x)) THEN Expected(f.y) ELSE 0
            [] f.op = "guard" -> Add(Expected(f.y), 1)
            [] f.op = "trap" -> 0
            [] f.op = "selfadd" -> Add(Expected(f.x), 1)
            [] OTHER -> Undefined

\* The effects of the program only read: no body writes, disposes or throws.
ReaderProgram ==
  \A e \in Effects : \A i \in 1..Len(Prog.body[e]) :
    Prog.body[e][i].i \in {"read", "ifz"}

\* The body of effect e reads cells only.
ReadsCellsOnly(e) ==
  \A i \in 1..Len(Prog.body[e]) :
    Prog.body[e][i].i = "read" => Prog.body[e][i].s \in Cells

\* What effect e read in its last run is what the cells hold now.
SeenCurrent(e) ==
  \A c \in Cells : seen[e][c] # NoVal => seen[e][c] = value[c]

C2_NoRunAfterDispose == ~last.zombieRun

\* C2's case: a drain met a node that was disposed while it was pending,
\* and skipped it.
C2_Witness ==
  /\ last.op = "drain" /\ last.skipped > 0
  /\ \E e \in Effects : disposed[e] /\ last.runs[e] = 0

\* C3 as stated: a disposed node is a dependent of no cell and no computed.
C3_DisposedIsUnlinked ==
  \A e \in Effects : \A s \in Signals :
    (status[e] # "none" /\ disposed[e]) => ~SetHas(effects[s], e)

\* C4: in a program whose effects only read, when a drain has run after a
\* batch, every effect that read a cell the batch changed has been rerun
\* exactly once since the batch was entered, and saw the values the cells
\* hold now.
C4_OneRerunPerBatch ==
  (last.op = "drain" /\ ReaderProgram)
    => \A e \in Effects :
         (owed[e] >= 1 /\ ~disposed[e] /\ ReadsCellsOnly(e))
           => owed[e] = 2 /\ SeenCurrent(e)

\* C4's case: a batch changed both a and b, two writes to cells that e1
\* reads, and the drain after it has rerun e1 and e2 once each.
C4_Witness ==
  /\ Prog.name = "branch" /\ last.op = "drain"
  /\ owed["e1"] = 2 /\ owed["e2"] = 2
  /\ seen["e1"]["a"] = 1 /\ seen["e1"]["b"] = 1

NoDuplicates(q) == \A i, j \in 1..Len(q) : q[i] = q[j] => i = j

\* C5: a node is in the pending set at most once; a value-changing write
\* outside a batch leaves every live dependent effect of the cell pending;
\* and, in a program whose effects only read, a drain reruns every pending
\* live effect that reads cells only exactly once, on the values the cells
\* hold.
C5_PendingOnceRerunOnce ==
  [][/\ NoDuplicates(pendingEffects')
     /\ (last'.op = "write" /\ batchDepth = 0
         /\ ~Equals(last'.arg, value[last'.arg], value'[last'.arg]))
          => \A e \in DueAfterWrite(last'.arg) : SetHas(pendingEffects', e)
     /\ (last'.op = "drain" /\ ReaderProgram)
          => \A e \in Effects :
               (SetHas(pendingEffects, e) /\ ~disposed[e] /\ ReadsCellsOnly(e))
                 => last'.runs[e] = 1 /\ SeenCurrent(e)']_vars

\* C5's case: a cell read by two effects was written, both are pending
\* once, and a drain then reran each once.
C5_Witness ==
  /\ Prog.name = "branch" /\ last.op = "drain"
  /\ last.runs = [e1 |-> 1, e2 |-> 1]
  /\ seen["e1"]["b"] = 1 /\ seen["e2"]["b"] = 1

\* C6 as stated: a write of the literal the cell already holds (under the
\* cell's equality) changes no value, no dependents or dependencies set, no
\* dirty flag and nothing in the scheduler.
C6_EqualWriteChangesNothing == ~last.noopChanged

\* C7: no rerun of an effect starts while a write is in progress or a batch
\* body is running, and no call but effect() (the first run of the effect it
\* registers, and of no other) and the drain microtask runs an effect body:
\* not a write, a read, a dispose, the entry or the exit of a batch, or a
\* call of flushEffects.
C7_NoSynchronousRerun ==
  /\ ~last.syncRerun
  /\ last.op \notin {"effect", "drain"} => last.runs = NoRuns
  /\ last.op = "effect" => last.runs = [NoRuns EXCEPT ![last.arg] = 1]

\* C7's case: a write inside a batch body has returned with a dependent
\* effect pending and no effect run.
C7_Witness ==
  /\ last.op = "write" /\ batchDepth > 0
  /\ pendingEffects # <<>> /\ last.runs = NoRuns
  /\ \E e \in Effects : SetHas(pendingEffects, e) /\ status[e] = "live"

\* C8: when a drain ends without error the pending set is empty, and every
\* effect that was pending when it started has run in it unless disposed.
C8_DrainLeavesNothing ==
  [][(last'.op = "drain" /\ last'.err = "none")
       => /\ pendingEffects' = <<>>
          /\ \A e \in Effects :
               SetHas(pendingEffects, e) => (last'.runs[e] >= 1 \/ disposed'[e])]_vars

\* C8's case: e1 wrote b while the drain ran it, which scheduled e2; the
\* same drain ran e2 in its second iteration.
C8_Witness ==
  /\ Prog.name = "cascade" /\ last.op = "drain" /\ last.err = "none"
  /\ last.order = <<"e1", "e2">> /\ last.iterations = 2
  /\ pendingEffects = <<>>

\* The drain iterations that effect e2 of the loop program needs, alone in
\* the pending set, when b holds v: one per increment up to the limit, and
\* the one that finds the limit reached.
IterationsNeeded(v) ==
  IF v < MAX_FLUSH_ITERATIONS THEN MAX_FLUSH_ITERATIONS - v + 1 ELSE 1

\* C9: a drain fails only with the overrun error, exactly when it has run
\* MAX_FLUSH_ITERATIONS iterations and nodes are still pending; the error
\* reports the ceiling and the number of nodes pending, and the pending set
\* is then empty.  An effect that always reschedules itself makes the drain
\* fail, and the counting effect makes it fail exactly when it needs more
\* than MAX_FLUSH_ITERATIONS iterations.
C9_OverrunIffCeilingExceeded ==
  [][last'.op = "drain" =>
       /\ last'.err \in {"none", "overrun"}
       /\ last'.err = "overrun" =>
            /\ last'.iterations = MAX_FLUSH_ITERATIONS
            /\ last'.message[1] = MAX_FLUSH_ITERATIONS
            /\ last'.message[2] >= 1
            /\ pendingEffects' = <<>>
       /\ last'.err = "none" => last'.iterations <= MAX_FLUSH_ITERATIONS
       /\ (Prog.name = "loop" /\ SetHas(pendingEffects, "e1") /\ ~disposed["e1"])
            => last'.err = "overrun"
       /\ (Prog.name = "loop" /\ pendingEffects = <<"e2">>)
            => /\ last'.err = "overrun" <=>
                    IterationsNeeded(value["b"]) > MAX_FLUSH_ITERATIONS
               /\ last'.err = "overrun" => last'.message[2] = 1
               /\ last'.err = "none" =>
                    last'.iterations = IterationsNeeded(value["b"])]_vars

\* C9's case: the counting effect needed one iteration more than
\* MAX_FLUSH_ITERATIONS; the drain failed, reporting the ceiling and the one
\* effect still pending, and left the pending set empty.
C9_Witness ==
  /\ Prog.name = "loop" /\ last.op = "drain" /\ last.err = "overrun"
  /\ last.message = <<MAX_FLUSH_ITERATIONS, 1>>
  /\ last.runs["e1"] = 0 /\ value["b"] = MAX_FLUSH_ITERATIONS
  /\ pendingEffects = <<>>

\* The other side of C9's case: the counting effect settled in exactly
\* MAX_FLUSH_ITERATIONS iterations and the drain ended without error.
C9_SettlesAtCeiling ==
  /\ Prog.name = "loop" /\ last.op = "drain" /\ last.err = "none"
  /\ last.iterations = MAX_FLUSH_ITERATIONS
  /\ value["b"] = MAX_FLUSH_ITERATIONS

C11_FlushAtOutermostExit ==
  [][/\ batchDepth' >= 0
     /\ last'.op = "batchEnter" =>
          batchDepth' = batchDepth + 1 /\ microtasks' = microtasks
     /\ last'.op = "batchExit" =>
          /\ batchDepth' = batchDepth - 1
          /\ microtasks' = IF batchDepth' = 0 THEN Append(microtasks, "drain")
                           ELSE microtasks
          /\ pendingEffects' = pendingEffects
          /\ last'.runs = NoRuns
     /\ last'.op \notin {"batchEnter", "batchExit"} => batchDepth' = batchDepth]_vars

\* C11's case: fn of the outermost batch threw after a write made an effect
\* pending; the depth is back to 0 and the drain is queued.
C11_Witness ==
  /\ last.op = "batchExit" /\ last.err = "fn"
  /\ batchDepth = 0 /\ microtasks = <<"drain">>
  /\ pendingEffects # <<>>

\* The other side of C11's case: an inner batch was left with an effect
\* pending, and no drain is queued.
C11_InnerExit ==
  /\ last.op = "batchExit" /\ batchDepth = 1
  /\ pendingEffects # <<>> /\ microtasks = <<>>

\* The signals that hold node n among their dependents.
HeldBy(n) == {s \in Signals : SetHas(effects[s], n)}

\* C12: whenever no call is in progress, an effect that has run and was
\* not disposed is a dependent of exactly the signals whose getter its last
\* run called, and its dependencies set names the same signals (of a run
\* that threw: exactly the cells, and those computeds whose getter
\* returned before the throw); and a write to a cell that an effect reading
\* cells only did not read in its last run does not make that effect
\* pending.
C12_DependentOfWhatItRead ==
  [][/\ \A e \in Effects :
          (status'[e] # "none" /\ ~disposed'[e])
            => /\ dependencies'[e] = HeldBy(e)'
               /\ HeldBy(e)' \subseteq tracked'[e]
               /\ HeldBy(e)' \cap Cells = tracked'[e] \cap Cells
               /\ ~threw'[e] => HeldBy(e)' = tracked'[e]
     /\ last'.op = "write" =>
          \A e \in Effects :
            (status[e] = "live" /\ ~disposed[e] /\ ReadsCellsOnly(e)
               /\ last'.arg \notin tracked[e] /\ ~SetHas(pendingEffects, e))
              => ~SetHas(pendingEffects', e)]_vars

\* C12's case: e1 read b in an earlier run, its last run read a = 0 and
\* did not take the branch that reads b, and a write has since changed b
\* without making e1 pending.
C12_Witness ==
  /\ Prog.name = "branch" /\ status["e1"] = "live"
  /\ everTracked["e1"] = {"a", "b"}
  /\ tracked["e1"] = {"a"} /\ HeldBy("e1") = {"a"}
  /\ value["a"] = 0 /\ value["b"] = 1
  /\ last.op = "write" /\ last.arg = "b"
  /\ ~SetHas(pendingEffects, "e1")

\* C13: a drain in which the body of an effect threw ends without an
\* exception (the throw was caught and logged), and every effect that was
\* pending when the drain began and was not disposed has run in it, the
\* effects that come after the one that threw included.
C13_ThrowDoesNotBlockSiblings ==
  [][(last'.op = "drain" /\ ~hung') =>
       /\ \A e \in Effects :
            (SetHas(pendingEffects, e) /\ ~disposed'[e]) => last'.runs[e] >= 1
       /\ last'.logged > 0 => last'.err = "none"]_vars

\* C13's case: e1 and e2 were pending in that order, the body of e1 threw,
\* the error was logged, e2 ran after it and the drain returned normally.
C13_Witness ==
  /\ Prog.name = "thrower" /\ last.op = "drain"
  /\ last.order = <<"e1", "e2">> /\ threw["e1"] /\ ~threw["e2"]
  /\ last.logged = 1 /\ last.err = "none"
  /\ pendingEffects = <<>> /\ ~isFlushing

\* C14: an effect whose rerun threw is not disposed by it and stays a
\* dependent of the cells that run read; a write that changes one of
\* them makes it pending; and a drain that begins with it pending runs it.
C14_ThrowingEffectStaysAlive ==
  [][\A e \in Effects :
       /\ (last'.op = "drain" /\ last'.runs[e] >= 1 /\ threw'[e] /\ ~disposed[e])
            => /\ ~disposed'[e]
               /\ HeldBy(e)' \cap Cells = tracked'[e] \cap Cells
               /\ HeldBy(e)' \subseteq tracked'[e]
       /\ (last'.op = "write" /\ value'[last'.arg] # value[last'.arg]
             /\ status[e] = "live" /\ threw[e] /\ ~disposed[e]
             /\ last'.arg \in tracked[e])
            => SetHas(pendingEffects', e)
       /\ (last'.op = "drain" /\ ~hung' /\ status[e] = "live" /\ threw[e]
             /\ SetHas(pendingEffects, e) /\ ~disposed'[e])
            => last'.runs[e] >= 1]_vars

\* C14's case: the last rerun of e1 threw after it read a; a write has
\* since changed a, and e1 is pending again.
C14_Witness ==
  /\ Prog.name = "thrower" /\ status["e1"] = "live" /\ threw["e1"]
  /\ ~disposed["e1"] /\ tracked["e1"] = {"a"} /\ HeldBy("e1") = {"a"}
  /\ last.op = "write" /\ last.arg = "a" /\ value["a"] = 0
  /\ SetHas(pendingEffects, "e1")

\* C15 as stated: a call of effect(fn) returns without an exception and
\* with the effect registered and disposable, whether or not fn threw in
\* the initial run.
C15_InitialThrowIsCaught ==
  last.op = "effect" => last.err = "none" /\ status[last.arg] = "live"

RECURSIVE Throws(_)

\* The compute function of s throws over the values the cells hold now.
Throws(s) ==
  IF s \in Cells THEN FALSE
  ELSE LET f == Prog.fn[s]
       IN CASE f.op = "add1" -> Throws(f.x)
            [] f.op = "sum" -> Throws(f.x) \/ Throws(f.y)
            [] f.op = "cond" -> Throws(f.x) \/ (Truthy(Expected(f.x)) /\ Throws(f.y))
            [] f.op = "guard" -> Throws(f.x) \/ Truthy(Expected(f.x)) \/ Throws(f.y)
            [] f.op = "trap" -> Throws(f.x) \/ Truthy(Expected(f.x))
            [] f.op = "selfadd" -> Throws(f.x)
            [] OTHER -> FALSE

\* C16: a read of a computed ends with the exception of its compute
\* function exactly when the function throws over the values the cells hold;
\* the computed then stays dirty and keeps the value it held.  A read of a
\* dirty computed that ends normally ran the compute function, returns the
\* value it yields over the values the cells hold and leaves the computed
\* clean.
C16_ThrowKeepsDirtyAndValue ==
  [][last'.op = "read" =>
       LET k == last'.arg
       IN /\ (last'.err = "compute") = Throws(k)
          /\ last'.err = "compute" =>
               dirty'[k] /\ value'[k] = value[k] /\ last'.computes[k] >= 1
          /\ (last'.err = "none" /\ dirty[k]) =>
               /\ last'.computes[k] >= 1 /\ ~dirty'[k]
               /\ last'.ret = Expected(k) /\ value'[k] = last'.ret]_vars

\* C16's case: k1 was computed to 2 while b = 1; a was then set and b
\* cleared, and the read of k1 threw: k1 is dirty and still holds 2.
C16_Witness ==
  /\ Prog.name = "faulty" /\ last.op = "read" /\ last.arg = "k1"
  /\ last.err = "compute" /\ last.computes["k1"] = 1
  /\ dirty["k1"] /\ value["k1"] = 2 /\ value["b"] = 0

\* C16's recovery: k2 = k1 + 1 holds a value and has no sources, which is
\* the state a recomputation of k2 stopped by the exception of k1 leaves;
\* a was cleared since, and the read of k1 ran the compute function and
\* returned the fresh value.
C16_Recovered ==
  /\ Prog.name = "faulty" /\ last.op = "read" /\ last.arg = "k1"
  /\ last.err = "none" /\ last.computes["k1"] = 1
  /\ last.ret = 2 /\ value["b"] = 1
  /\ value["k2"] # Undefined /\ sources["k2"] = {} /\ dirty["k2"]

\* C17: an assignment to the value of a computed ends with the error
\* "Cannot set value of a computed signal" and changes nothing: not a
\* value, not a dirty flag, not an edge, not the pending set, not the
\* microtask queue; no effect runs and no compute function is invoked.
C17_ComputedIsReadOnly ==
  [][last'.op = "assign" =>
       /\ last'.err = "readonly"
       /\ last'.message = <<"Cannot set value of a computed signal">>
       /\ UNCHANGED <<value, dirty, effects, dependencies, sources, disposed,
                      pendingEffects, isFlushing, microtasks, batchDepth>>
       /\ last'.runs = NoRuns /\ last'.computes = NoComputes]_vars

\* C17's case: k1 was assigned while it was clean and held a value other
\* than the one assigned, k2 was dirty and an effect was pending.
C17_Witness ==
  /\ Prog.name = "batched" /\ last.op = "assign" /\ last.arg = "k1"
  /\ last.err = "readonly"
  /\ ~dirty["k1"] /\ value["k1"] = 2 /\ dirty["k2"]
  /\ HeldBy("m1") = {"a"} /\ SetHas(pendingEffects, "e1")

\* C18: a write to a cell whose equality function throws ends with that
\* exception and changes nothing: the cell keeps its value, no computed
\* is marked dirty, no effect is made pending, no microtask is queued and
\* no edge changes.
C18_ThrowingEqualsAbortsWrite ==
  [][(last'.op = "write" /\ EqualsThrows(last'.arg)) =>
       /\ last'.err = "equals"
       /\ UNCHANGED <<value, dirty, effects, dependencies, sources,
                      pendingEffects, isFlushing, microtasks>>
       /\ last'.runs = NoRuns /\ last'.computes = NoComputes]_vars

\* C18's case: b is read by the live effect e1 and by the clean computed
\* k1; a write to b threw, and b, k1 and the pending set are as they were.
C18_Witness ==
  /\ Prog.name = "picky" /\ last.op = "write" /\ last.arg = "b"
  /\ last.err = "equals"
  /\ status["e1"] = "live" /\ HeldBy("e1") = {"b"} /\ HeldBy("m1") = {"b"}
  /\ value["b"] = 0 /\ ~dirty["k1"] /\ value["k1"] = 1
  /\ pendingEffects = <<>> /\ microtasks = <<>>

\* C19 as stated: when a lazy computed is read, and it was read before
\* with no change of any cell since (microtasks may have run in between),
\* the read does not invoke its compute function.
C19_NoRecomputeBetweenReads ==
  [][(last'.op = "read" /\ last'.arg = lastRead /\ ~Prog.eager[lastRead])
       => last'.computes[last'.arg] = 0]_vars

RECURSIVE Upstream(_)

\* The cells the value of computed k was computed from: the cells its last
\* computation read, and those its upstream computeds were computed from.
Upstream(k) ==
  LET read == tracked[MarkerOf(k)]
  IN (read \cap Cells) \cup UNION {Upstream(j) : j \in (read \cap Computeds) \ {k}}

\* C20: a computed whose last recomputation completed has its marker among
\* the dependents of exactly the signals that computation read, and its
\* sources and the marker's dependencies name the same signals.  A write
\* that changes a cell its value was not computed from leaves a clean
\* computed clean and invokes no compute function of it; a write that
\* changes a cell its last computation read marks a clean computed dirty
\* (or, eager, recomputes it).
C20_MarkerOnLatestSources ==
  [][\A k \in UsedComputeds :
       LET m == MarkerOf(k)
       IN /\ (~dirty'[k] \/ sources'[k] # {}) =>
               /\ HeldBy(m)' = tracked'[m]
               /\ sources'[k] = tracked'[m]
               /\ dependencies'[m] = tracked'[m]
          /\ (last'.op = "write" /\ value'[last'.arg] # value[last'.arg]
                /\ ~dirty[k] /\ last'.arg \notin Upstream(k)) =>
               ~dirty'[k] /\ last'.computes[k] = 0
          /\ (last'.op = "write" /\ value'[last'.arg] # value[last'.arg]
                /\ ~dirty[k] /\ last'.arg \in tracked[m]) =>
               dirty'[k] \/ last'.computes[k] >= 1]_vars

\* C20's case: k1 = a ? b : 0 read b in an earlier computation; its last
\* computation saw a = 0 and read a only; b no longer holds the marker, and
\* a write that changed b left k1 clean and not recomputed.
C20_Witness ==
  /\ Prog.name = "switch" /\ ~dirty["k1"]
  /\ everTracked["m1"] = {"a", "b"} /\ tracked["m1"] = {"a"}
  /\ HeldBy("m1") = {"a"} /\ sources["k1"] = {"a"}
  /\ last.op = "write" /\ last.arg = "b" /\ value["b"] = 1
  /\ last.computes["k1"] = 0

\* The body of effect e reads computeds and does nothing else.
ReadsComputedsOnly(e) ==
  /\ Prog.body[e] # <<>>
  /\ \A i \in 1..Len(Prog.body[e]) :
       Prog.body[e][i].i = "read" /\ Prog.body[e][i].s \in Computeds

ReadersOf(s) == {e \in Effects : SetHas(effects[s], e)}

C23_EagerRecomputesInWrite ==
  [][\A k \in UsedComputeds :
       (last'.op = "write" /\ value'[last'.arg] # value[last'.arg] /\ ~hung'
          /\ Prog.eager[k] /\ last'.arg \in tracked[MarkerOf(k)] /\ ~Throws(k)')
         => /\ last'.computes[k] = 1
            /\ ~dirty'[k]
            /\ value'[k] = Expected(k)']_vars

\* C23's case: a was changed to 1 and the write recomputed the eager
\* k1 = a + 1 once: k1 is clean and holds 2 with no read made.
C23_Witness ==
  /\ Prog.name = "eager" /\ last.op = "write" /\ last.arg = "a"
  /\ value["a"] = 1 /\ last.computes["k1"] = 1
  /\ ~dirty["k1"] /\ value["k1"] = 2

\* C24 as stated: peek() on a computed returns the value its compute
\* function yields over the values the cells hold, and changes no edge.
C24_PeekIsCurrent ==
  [][(last'.op = "peek" /\ last'.arg \in Computeds) =>
       /\ last'.ret = Expected(last'.arg)
       /\ UNCHANGED <<effects, dependencies, sources>>]_vars

\* The handles removed with handle n: n and its descendants.
RemovedWith(n) == {n} \cup {childNodes(n)[i] : i \in 1..Len(childNodes(n))}

\* The disposers registered for the handles removed with n.
RegisteredUnder(n) == UNION {Members(cleanupByNode[h]) : h \in RemovedWith(n)}

\* C25: a report of the removal of a handle calls every disposer registered
\* for it and for its descendants exactly once and no other disposer,
\* whether or not disposers called before threw; every throw is logged,
\* none leaves the report, and the handles removed have no disposers left.
C25_EveryDisposerRuns ==
  [][last'.op = "removed" =>
       /\ \A d \in Disposers :
            called'[d] = called[d] + (IF d \in RegisteredUnder(last'.arg) THEN 1 ELSE 0)
       /\ last'.err = "none"
       /\ last'.logged = Cardinality({d \in RegisteredUnder(last'.arg) : throwsOn[d]})
       /\ \A h \in RemovedWith(last'.arg) : cleanupByNode'[h] = <<>>]_vars

\* C25's case: d1 and d2 were registered for n1 in that order and d1
\* throws; the removal of n1 was reported, one error was logged and both
\* were called.
C25_Witness ==
  /\ last.op = "removed" /\ last.arg = "n1" /\ last.err = "none"
  /\ last.logged = 1 /\ throwsOn["d1"] /\ ~throwsOn["d2"]
  /\ called["d1"] = 1 /\ called["d2"] = 1 /\ called["d3"] = 0
  /\ cleanupByNode["n1"] = <<>>

RECURSIVE Fold(_, _, _)

\* The count the updates of queue, from the i-th on, make of count c when
\* each is applied once, in order.
Fold(c, queue, i) ==
  IF i > Len(queue) THEN c
  ELSE Fold(IF queue[i] = "lit" THEN Literal
            ELSE IF queue[i] = "inc" THEN c + 1 ELSE c, queue, i + 1)

\* The positions of the queued updates the store's set accepts, in order.
Accepted(queue) ==
  LET RECURSIVE From(_)
      From(i) == IF i > Len(queue) THEN <<>>
                 ELSE (IF queue[i] = "method" THEN <<>> ELSE <<i>>) \o From(i + 1)
  IN From(1)

\* What the completion of the hydration is to do: every queued update the
\* store accepts is applied once, in call order, over the loaded state if
\* one was loaded.
AppliedOnceInOrder ==
  /\ isHydrated'
  /\ applied' = Accepted(pendingUpdates)
  /\ storeCount' = Fold(IF last'.arg = "state" THEN Loaded ELSE storeCount,
                        pendingUpdates, 1)

\* What a call of the wrapped set is to do before that: queue the update
\* and apply nothing.
QueuedNotApplied ==
  /\ pendingUpdates' = Append(pendingUpdates, last'.arg)
  /\ storeCount' = storeCount /\ applied' = applied /\ saved' = saved

\* C26 as stated: an update passed to the wrapped set before the
\* hydration completes is queued and not applied, and the completion of the
\* hydration (state loaded, nothing stored, load failed) applies every
\* queued update exactly once, in call order, after the loaded state; none
\* is lost.
C26_QueuedThenAppliedOnce ==
  [][/\ (last'.op = "persistentSet" /\ ~isHydrated) => QueuedNotApplied
     /\ last'.op = "hydrate" => AppliedOnceInOrder]_vars

\* The same for queues of updates the store's set accepts.
C26_AppliedOnceWhenNoneThrows ==
  [][/\ (last'.op = "persistentSet" /\ ~isHydrated) => QueuedNotApplied
     /\ (last'.op = "hydrate"
           /\ \A i \in 1..Len(pendingUpdates) : pendingUpdates[i] # "method")
          => AppliedOnceInOrder]_vars

\* A hydration that loaded the stored state and then applied a queued
\* literal and a queued updater over it.
C26_LoadedThenQueue ==
  /\ last.op = "hydrate" /\ last.arg = "state" /\ last.err = "none"
  /\ applied = <<1, 2>> /\ storeCount = Literal + 1 /\ saved = Literal + 1
  /\ pendingUpdates = <<>>

\* C27: whenever no run, write or flush is in progress, a cell or computed is
\* among the dependencies of a node (an effect's runner or a computed's
\* marker) exactly when the node is among its dependents.
C27_EdgeSymmetry ==
  \A n \in Nodes : \A c \in Signals :
    c \in dependencies[n] <=> SetHas(effects[c], n)

\* The signals the body of effect e reads through their getter: s.value,
\* and the call s(v), which returns s.value.
DirectReads(e) ==
  {Prog.body[e][i].s :
     i \in {j \in 1..Len(Prog.body[e]) :
              \/ Prog.body[e][j].i \in {"read", "toggle", "incbelow"}
              \/ Prog.body[e][j].i = "write" /\ Prog.body[e][j].f # "setter"}}

\* The signals the compute function of k can read.
FnReads(k) ==
  ({Prog.fn[k].x, Prog.fn[k].y} \cap Signals)
    \cup (IF Prog.fn[k].op = "selfadd" THEN {k} ELSE {})

\* The body of e is a sequence of reads and peeks.
Unconditional(e) ==
  /\ Prog.body[e] # <<>>
  /\ \A i \in 1..Len(Prog.body[e]) : Prog.body[e][i].i \in {"read", "peek"}

\* C28: a tracked read registers the node on top of the active-node stack
\* and no other: an effect is a dependent only of signals its own body
\* reads through the getter (of all of them once it has run), a marker only
\* of signals its own compute function reads, so a cell read by a computed
\* that an effect reads holds the marker and not the effect; a read with an
\* empty stack gives the signal read no dependent (a computed whose function
\* reads the computed itself gets its own marker, registered with the marker
\* on top of the stack), and a peek changes no edge.
C28_OnlyTopOfStackRegisters ==
  [][/\ \A e \in Effects :
          /\ HeldBy(e)' \subseteq DirectReads(e)
          /\ (Unconditional(e) /\ status'[e] # "none" /\ ~disposed'[e] /\ ~threw'[e]
                /\ last'.err = "none")
               => HeldBy(e)' = DirectReads(e)
     /\ \A k \in UsedComputeds : HeldBy(MarkerOf(k))' \subseteq FnReads(k)
     /\ last'.op = "read" =>
          /\ \A n \in Nodes :
               SetHas(effects'[last'.arg], n)
                 => \/ SetHas(effects[last'.arg], n)
                    \/ /\ last'.arg \in UsedComputeds
                       /\ last'.arg \in FnReads(last'.arg)
                       /\ n = MarkerOf(last'.arg)
          /\ \A e \in Effects : HeldBy(e)' \subseteq HeldBy(e)
     /\ last'.op = "peek" => effects' = effects /\ dependencies' = dependencies]_vars

\* e1 peeked b and then read k1, e2 peeked k1, and k1 was peeked and read
\* from outside: a holds k1's marker alone, k1 holds e1 alone, b holds
\* nothing.
C28_Witness ==
  /\ Prog.name = "peeker" /\ last.op = "peek" /\ lastRead = "k1"
  /\ status["e1"] # "none" /\ status["e2"] # "none"
  /\ effects["a"] = <<"m1">> /\ effects["k1"] = <<"e1">> /\ effects["b"] = <<>>
  /\ dependencies["e1"] = {"k1"} /\ dependencies["e2"] = {}

\* C29: a recomputation whose result the computed's equality function deems
\* equal to the cached value stores nothing new and notifies none of the
\* computed's dependents.
C29_EqualResultChangesNothing == ~last.equalChanged

\* C30: the scheduler's pending set never holds the sync marker of a
\* computed.
C30_NoMarkerPending ==
  \A i \in 1..Len(pendingEffects) : pendingEffects[i] \notin Markers

\* C31: a write never throws the exception of a compute function; when a
\* sync marker it invoked threw (the exception was logged), the write
\* returned normally with the new value stored, every live effect among the
\* cell's dependents is pending and every other clean computed whose marker
\* the cell held was marked dirty or recomputed.
C31_MarkerThrowIsCaughtInWrite ==
  [][last'.op = "write" =>
       /\ last'.err # "compute"
       /\ (last'.logged >= 1 /\ ~hung') =>
            /\ last'.err = "none"
            /\ value'[last'.arg] # value[last'.arg]
            /\ \A e \in Effects :
                 (SetHas(effects[last'.arg], e) /\ ~disposed[e])
                   => SetHas(pendingEffects', e)
            /\ \A k \in UsedComputeds :
                 (SetHas(effects[last'.arg], MarkerOf(k)) /\ ~dirty[k])
                   => dirty'[k] \/ last'.computes[k] >= 1]_vars

\* C31's case: the write a.value = 1 invoked the marker of the eager k1,
\* whose compute function threw; the write returned, a holds 1, k2 was
\* marked dirty and e1 is pending.
C31_Witness ==
  /\ Prog.name = "eagerfaulty" /\ last.op = "write" /\ last.err = "none"
  /\ last.logged = 1 /\ last.computes["k1"] = 1
  /\ value["a"] = 1 /\ dirty["k1"] /\ dirty["k2"] /\ value["k2"] = 1
  /\ pendingEffects = <<"e1">>

\* The effects of a sequence of nodes that are not disposed after the step.
AliveIn(seq) == SelectSeq(seq, LAMBDA n : n \in Effects /\ ~disposed'[n])

\* The snapshots of the first two iterations of a drain, one after the
\* other.
Snapshots(p) ==
  IF p = <<>> THEN <<>> ELSE IF Len(p) = 1 THEN p[1] ELSE p[1] \o p[2]

\* C32: a drain runs the effects of each iteration's snapshot of the pending
\* set in the order of their insertion, and all of them before any effect
\* scheduled during that iteration: the runs of the drain begin with the
\* first snapshot, which is the pending set the drain found, followed by the
\* second (effects disposed by the end of the drain left aside).
C32_RunsInInsertionOrder ==
  [][(last'.op = "drain" /\ ~hung') =>
       /\ last'.passes # <<>> => last'.passes[1] = pendingEffects
       /\ LET want == AliveIn(Snapshots(last'.passes))
              ran == AliveIn(last'.order)
          IN Len(want) <= Len(ran) /\ SubSeq(ran, 1, Len(want)) = want]_vars

\* C32's case: the drain found e2 pending before e1 and ran e2 first; both
\* rescheduled themselves while the iteration ran and the second iteration
\* ran them in the same order.
C32_Witness ==
  /\ last.op = "drain" /\ last.passes = <<<<"e2", "e1">>, <<"e2", "e1">>>>
  /\ last.order = <<"e2", "e1", "e2", "e1">>

\* C33: the disposed flag is looked at immediately before each execution: an
\* effect disposed during a call (by a run of another effect in a flush, by
\* its own run, or from outside) is not run again in that call, pending or
\* not, and no later call other than its re-creation runs it.
C33_DisposedMidFlushIsSkipped ==
  [][\A e \in Effects :
       /\ last'.killedAt[e] # NoVal => last'.runs[e] = last'.killedAt[e]
       /\ (disposed[e] /\ ~(last'.op = "effect" /\ last'.arg = e))
            => last'.runs[e] = 0]_vars

\* C33's case: the drain found e2 and e1 pending in this order, the run of
\* e2 disposed e1, and the loop skipped e1.
C33_Witness ==
  /\ last.op = "drain" /\ last.passes = <<<<"e2", "e1">>>>
  /\ last.order = <<"e2">> /\ last.killedAt["e1"] = 0 /\ last.skipped = 1
  /\ disposed["e1"] /\ ~disposed["e2"]

\* C34: the compute function of a computed is never entered while an earlier
\* invocation of the same computed's function is still executing (a
\* recomputation requested meanwhile returns at once), and isComputing is
\* false whenever no recomputation of the computed is in progress, after the
\* compute function threw included.
C34_NoReentrantCompute ==
  /\ ~last.reentered
  /\ \A k \in Computeds : ~isComputing[k]

\* The function of k1 read k1 while it ran: the nested recomputation was
\* refused, the function ran once, and k1 is among its own sources.
C34_Witness ==
  /\ Prog.name = "selfread" /\ last.op = "read" /\ last.arg = "k1"
  /\ last.refused /\ last.computes["k1"] = 1 /\ last.err = "none"
  /\ "k1" \in sources["k1"]

\* A recomputation ended with the exception of the compute function.
C34_AfterThrow ==
  /\ last.op = "read" /\ last.arg \in Computeds /\ last.err = "compute"
  /\ last.computes[last.arg] = 1 /\ ~isComputing[last.arg]

\* C35: the active-node stack is balanced: when an effect run or a
\* recomputation ends, by return or by exception, the stack is what it was
\* when it began, and between the operations of the program the stack is
\* empty.
C35_StackBalanced ==
  /\ ~last.unbalanced
  /\ activeEffects = <<>>

\* A drain ran an effect whose body threw: the exception left the runner
\* and was logged by the drain, and the stack is empty.
C35_Witness ==
  /\ last.op = "drain" /\ last.logged > 0
  /\ \E e \in Effects : last.runs[e] > 0 /\ threw[e]
  /\ activeEffects = <<>>

\* A read recomputed a computed whose function threw.
C35_ComputeThrew ==
  /\ last.op = "read" /\ last.err = "compute"
  /\ last.arg \in Computeds /\ last.computes[last.arg] > 0
  /\ activeEffects = <<>>

\* C36 as stated: every write of a cell returns: the synchronous marker
\* propagation it triggers invokes finitely many markers and recomputations.
C36_WriteTerminates ==
  last.op = "write" => last.err # "hang"

\* Microtask is enabled, and the step taken is Microtask (every action
\* names itself in last.op, and Microtask always changes the queue).
MicrotaskReady == ~hung /\ batchDepth = 0 /\ microtasks # <<>>
MicrotaskRan == last'.op \in {"callFlush", "drain"}

\* The scheduling the code provides.  The event loop runs the queued
\* microtasks whenever the synchronous code has returned: Microtask is
\* strongly fair (SF_vars(Microtask), written with the enabling condition of
\* the action).  batch is synchronous: the outermost batch call returns, so
\* the depth is 0 again and again unless a call inside it never returns.
FairSpec ==
  /\ Spec
  /\ ([]<>MicrotaskReady) => ([]<><<MicrotaskRan>>_vars)
  /\ []<>(batchDepth = 0 \/ hung)

\* Whenever effects are pending and no batch is open, a microtask that
\* leads to a drain is queued.
C37_DrainQueued ==
  (pendingEffects # <<>> /\ batchDepth = 0) => microtasks # <<>>

\* C37 as stated: no scheduled effect is stranded: whenever effects are
\* pending and no batch is open, a microtask leading to a drain is queued
\* and the event loop can run it, so that the effects get executed without
\* any further call of the program.
C37_NoStrandedEffect ==
  (pendingEffects # <<>> /\ batchDepth = 0) => MicrotaskReady

\* The same as a property of behaviours: an effect in the pending set
\* leaves it (run by a drain, skipped as disposed, or discarded by an
\* overrun).
C37_PendingLeadsToRun ==
  \A e \in Effects : SetHas(pendingEffects, e) ~> ~SetHas(pendingEffects, e)

\* Apart from a call that never returns, no scheduled effect is stranded.
C37_NoStrandedUnlessHung ==
  \A e \in Effects :
    SetHas(pendingEffects, e) ~> (~SetHas(pendingEffects, e) \/ hung)

\* C38: a drain that failed with the iteration-ceiling error leaves the
\* scheduler idle (pending set empty, flushing flag false, batchDepth as it
\* was) and every live effect a dependent of exactly the signals its last
\* run read; after such a failure a write that changes a cell again makes
\* the cell's live dependents pending with a microtask queued for them,
\* and a drain runs the effects it finds pending.
C38_IdleAfterOverrun ==
  [][/\ (last'.op = "drain" /\ last'.err = "overrun") =>
          /\ pendingEffects' = <<>> /\ ~isFlushing' /\ batchDepth' = batchDepth
          /\ \A e \in Effects :
               (status'[e] = "live" /\ ~disposed'[e])
                 => HeldBy(e)' = tracked'[e] /\ dependencies'[e] = tracked'[e]
     /\ (last.overran /\ last'.op = "write" /\ ~hung'
           /\ value'[last'.arg] # value[last'.arg]) =>
          /\ \A e \in DueAfterWrite(last'.arg) : SetHas(pendingEffects', e)
          /\ (DueAfterWrite(last'.arg) # {} /\ batchDepth = 0) => microtasks' # <<>>
     /\ (last.overran /\ last'.op = "drain" /\ ~hung') =>
          \A e \in Effects :
            (SetHas(pendingEffects, e) /\ ~disposed'[e]) => last'.runs[e] >= 1]_vars

\* After a drain failed with the ceiling error, b was written and a drain
\* ran the counting effect, which settled without a second failure.
C38_Witness ==
  /\ Prog.name = "loop" /\ last.overran
  /\ last.op = "drain" /\ last.err = "none" /\ last.runs["e2"] >= 1
  /\ value["b"] = MAX_FLUSH_ITERATIONS
  /\ pendingEffects = <<>> /\ ~isFlushing /\ HeldBy("e2") = {"b"}

\* The signals the body of e reads otherwise than by writing them.
BodyReads(e) ==
  {Prog.body[e][i].s :
     i \in {j \in 1..Len(Prog.body[e]) :
              Prog.body[e][j].i \in {"read", "toggle", "incbelow"}}}

\* C39 as stated: a write creates no dependency edge: an effect is a
\* dependent only of signals its body reads, and not of a cell it only
\* writes, in whatever form.
C39_WriteCreatesNoEdge ==
  \A e \in Effects : HeldBy(e) \subseteq BodyReads(e)

\* C40 as stated: an effect whose last run failed because a computed it
\* reads threw in its recomputation is not lost: the write after which the
\* compute function no longer throws makes the effect pending (and the
\* drain that follows reruns it).
C40_FailedEffectNotLost ==
  [][\A e \in Effects, k \in UsedComputeds :
       (/\ last'.op = "write" /\ ~hung'
        /\ status[e] = "live" /\ ~disposed[e] /\ threw[e]
        /\ k \in BodyReads(e)
        /\ Throws(k) /\ ~Throws(k)')
         => SetHas(pendingEffects', e)]_vars

====
